---- MODULE Spec2Model ----
(***************************************************************************)
(* Real-time collaborative flow graph: the useRealtimeFlow hook (shared    *)
(* document store, node locks) and the ChatFlow reconciliation of remote   *)
(* snapshots into local state.                                             *)
(*                                                                         *)
(* The shared document store is one linearizable map per collection: a     *)
(* mutation is atomic.  Every client reads the lock map through the        *)
(* snapshot that useStorage last handed to it; the client that performs a  *)
(* mutation sees it at once, the other clients when the change is          *)
(* delivered to them.                                                      *)
(***************************************************************************)
EXTENDS Integers, Sequences, FiniteSets, TLC

\* ---------------------------------------------------------------- bounds
Clients == {"c1", "c2"}
LockNodeIds == {"n1"}
\* the clock advances in steps of TickMs, at most MaxTicks times
TickMs == 60000
MaxTicks == 7

\* ------------------------------------------------------- program constants
LOCK_TIMEOUT_MS == 5 * 60 * 1000

NoLock == [nodeId |-> "none", userId |-> "none", userName |-> "none",
           lockedAt |-> -1, expiresAt |-> -1]
NoSelf == "noself"
NoEvents == {}
NoPosition == [x |-> -1, y |-> -1]
EmptyData == [userMessage |-> "none", assistantMessage |-> "none",
              isLoading |-> "none", aux |-> "none"]
NoNode == [id |-> "none", type |-> "none", position |-> NoPosition, data |-> EmptyData]
NoEdge == [id |-> "none", source |-> "none", target |-> "none"]

VARIABLES
    now,         \* Date.now()
    selfId,      \* per client: useSelf()?.id, NoSelf when absent
    nodeLocks,   \* store: nodeId -> NodeLock, NoLock when the key is absent
    lockSnap,    \* per client: the nodeLocks snapshot from useStorage
    lastOp,      \* the last operation: name, caller, argument, result, the
                 \* events it broadcast and the lock map it found
    chatOf,      \* per client: the chatId its hook is bound to
    flowNodes,   \* store: the flowNodes map, in insertion order
    flowEdges,   \* store: the flowEdges map, in insertion order
    isStorageLoaded,  \* per client: the initial snapshot has loaded
    nodesLocal,       \* per client: ChatFlow's node list
    edgesLocal,       \* per client: ChatFlow's edge list
    draggingNodes,    \* per client: draggingNodesRef
    isReceiving,      \* per client: isReceivingUpdatesRef
    lastSyncedNodes,  \* per client: the node list the hook last synced
    lastSyncedEdges,  \* per client: the edge list the hook last synced
    posTimer,         \* per client: the pending debounced position update
    isInitialized,    \* per client: initializeFlow has run
    hookNodes,        \* per client: the hook's cached node list (localNodesRef)
    hookEdges,        \* per client: the hook's cached edge list (localEdgesRef)
    lockRequests,     \* NodeLockManager: nodeId -> pending requests, oldest first
    lockCallbacks,    \* NodeLockManager: <<nodeId, userId>> -> callback, 0 when absent
    issued,           \* the number of callbacks handed to requestLock so far
    invoked,          \* per callback: the results it was invoked with, in order
    acquireCalls,     \* the acquireLockFn calls the last manager operation made
    dbFlowNodes,      \* database: the flowNode table, keyed by id
    dbFlowEdges       \* database: the flowEdge table, keyed by id

lockVars == <<nodeLocks, lockSnap>>
storeVars == <<flowNodes, flowEdges>>
flowVars == <<isStorageLoaded, nodesLocal, edgesLocal, draggingNodes, isReceiving,
              lastSyncedNodes, lastSyncedEdges, posTimer, isInitialized,
              hookNodes, hookEdges>>
queueVars == <<lockRequests, lockCallbacks, issued, invoked, acquireCalls>>
dbVars == <<dbFlowNodes, dbFlowEdges>>
vars == <<now, selfId, nodeLocks, lockSnap, lastOp, chatOf, flowNodes, flowEdges,
          isStorageLoaded, nodesLocal, edgesLocal, draggingNodes, isReceiving,
          lastSyncedNodes, lastSyncedEdges, posTimer, isInitialized,
          hookNodes, hookEdges, lockRequests, lockCallbacks, issued, invoked,
          acquireCalls, dbFlowNodes, dbFlowEdges>>

\* the callbacks a session hands to requestLock are numbered 1..MaxRequests
MaxRequests == 2
CallbackIds == 1..MaxRequests
\* a lock manager nobody has called, and empty tables
QueueIdle ==
    /\ lockRequests = [n \in LockNodeIds |-> <<>>]
    /\ lockCallbacks = [k \in LockNodeIds \X Clients |-> 0]
    /\ issued = 0
    /\ invoked = [k \in CallbackIds |-> <<>>]
    /\ acquireCalls = 0
DbIdle ==
    /\ dbFlowNodes = <<>>
    /\ dbFlowEdges = <<>>

\* ------------------------------------------------------------- identity
\* const userId = self?.id || 'anonymous'
UserIdOf(c) == IF selfId[c] = NoSelf THEN "anonymous" ELSE selfId[c]
\* const userName = self?.info?.name || 'Anonymous'
UserNameOf(c) == IF selfId[c] = NoSelf THEN "Anonymous" ELSE selfId[c]

\* ---------------------------------------------------------------- locks
isLockExpiredNever(lock, t) == FALSE
isLockExpired(lock, t) == t > lock.expiresAt

NewLock(c, n, t) ==
    [nodeId |-> n, userId |-> UserIdOf(c), userName |-> UserNameOf(c),
     lockedAt |-> t, expiresAt |-> t + LOCK_TIMEOUT_MS]

\* acquireLock refuses only a present, unexpired lock of another user
AcquireRefusedIgnoringHolder(c, n) == FALSE
AcquireRefused(c, n) ==
    /\ nodeLocks[n] # NoLock
    /\ ~isLockExpired(nodeLocks[n], now)
    /\ nodeLocks[n].userId # UserIdOf(c)

Op(name, c, n, ret, events) ==
    [op |-> name, client |-> c, node |-> n, ret |-> ret, events |-> events,
     before |-> nodeLocks, arg |-> NoNode, edge |-> NoEdge, deleted |-> {},
     threw |-> FALSE, result |-> NoNode]

AcquireLock(c, n) ==
    /\ IF AcquireRefused(c, n)
       THEN /\ UNCHANGED <<nodeLocks, lockSnap>>
            /\ lastOp' = Op("acquireLock", c, n, FALSE, NoEvents)
       ELSE /\ nodeLocks' = [nodeLocks EXCEPT ![n] = NewLock(c, n, now)]
            /\ lockSnap' = [lockSnap EXCEPT ![c] = nodeLocks']
            /\ lastOp' = Op("acquireLock", c, n, TRUE,
                            {[type |-> "node-locked", nodeId |-> n,
                              userId |-> UserIdOf(c)]})
    /\ UNCHANGED <<now, selfId, chatOf, queueVars, dbVars, storeVars, flowVars>>

\* if (lock && lock.userId === userId)
ReleaseAnyHolder(c, n) == nodeLocks[n] # NoLock
ReleaseAllowed(c, n) == nodeLocks[n] # NoLock /\ nodeLocks[n].userId = UserIdOf(c)

ReleaseLock(c, n) ==
    /\ IF ReleaseAllowed(c, n)
       THEN /\ nodeLocks' = [nodeLocks EXCEPT ![n] = NoLock]
            /\ lockSnap' = [lockSnap EXCEPT ![c] = nodeLocks']
            /\ lastOp' = Op("releaseLock", c, n, TRUE,
                            {[type |-> "node-unlocked", nodeId |-> n,
                              userId |-> UserIdOf(c)]})
       ELSE /\ UNCHANGED <<nodeLocks, lockSnap>>
            /\ lastOp' = Op("releaseLock", c, n, FALSE, NoEvents)
    /\ UNCHANGED <<now, selfId, chatOf, queueVars, dbVars, storeVars, flowVars>>

RenewedNoHolderCheck(c, n) == nodeLocks[n] # NoLock
RenewAllowed(c, n) == nodeLocks[n] # NoLock /\ nodeLocks[n].userId = UserIdOf(c)

RenewLock(c, n) ==
    /\ IF RenewAllowed(c, n)
       THEN /\ nodeLocks' = [nodeLocks EXCEPT
                               ![n].expiresAt = now + LOCK_TIMEOUT_MS]
            /\ lockSnap' = [lockSnap EXCEPT ![c] = nodeLocks']
            /\ lastOp' = Op("renewLock", c, n, TRUE, NoEvents)
       ELSE /\ UNCHANGED <<nodeLocks, lockSnap>>
            /\ lastOp' = Op("renewLock", c, n, FALSE, NoEvents)
    /\ UNCHANGED <<now, selfId, chatOf, queueVars, dbVars, storeVars, flowVars>>

\* the periodic sweep, run by any client's interval timer
SweptEveryLock == {n \in LockNodeIds : nodeLocks[n] # NoLock}
SweptNodes == {n \in LockNodeIds : nodeLocks[n] # NoLock /\ nodeLocks[n].expiresAt < now}

CleanupExpiredLocks(c) ==
    /\ nodeLocks' = [n \in LockNodeIds |->
                        IF n \in SweptNodes THEN NoLock ELSE nodeLocks[n]]
    /\ lockSnap' = [lockSnap EXCEPT ![c] = nodeLocks']
    /\ lastOp' = Op("cleanupExpiredLocks", c, "none", TRUE,
                    {[type |-> "node-unlocked", nodeId |-> n,
                      userId |-> nodeLocks[n].userId] : n \in SweptNodes})
    /\ UNCHANGED <<now, selfId, chatOf, queueVars, dbVars, storeVars, flowVars>>

\* the store's change reaches client c: useStorage hands it a new snapshot
DeliverLocks(c) ==
    /\ lockSnap[c] # nodeLocks
    /\ lockSnap' = [lockSnap EXCEPT ![c] = nodeLocks]
    /\ lastOp' = Op("deliverLocks", c, "none", TRUE, NoEvents)
    /\ UNCHANGED <<now, selfId, nodeLocks, chatOf, queueVars, dbVars, storeVars, flowVars>>

Tick ==
    /\ now < MaxTicks * TickMs
    /\ now' = now + TickMs
    /\ lastOp' = Op("tick", "none", "none", TRUE, NoEvents)
    /\ UNCHANGED <<selfId, nodeLocks, lockSnap, chatOf, queueVars, dbVars, storeVars, flowVars>>

\* getNodeLock / hasLock read the client's snapshot
getNodeLock(c, n) ==
    IF lockSnap[c][n] # NoLock /\ ~isLockExpired(lockSnap[c][n], now)
    THEN lockSnap[c][n] ELSE NoLock

hasLock(c, n) == getNodeLock(c, n) # NoLock /\ getNodeLock(c, n).userId = UserIdOf(c)

NotSynced == <<NoNode>>
NotSyncedEdges == <<NoEdge>>
NoTimer == [id |-> "none", position |-> NoPosition]

\* the client-side state of a ChatFlow that has not done anything yet
FlowIdle ==
    /\ isStorageLoaded = [c \in Clients |-> TRUE]
    /\ nodesLocal = [c \in Clients |-> <<>>]
    /\ edgesLocal = [c \in Clients |-> <<>>]
    /\ draggingNodes = [c \in Clients |-> {}]
    /\ isReceiving = [c \in Clients |-> FALSE]
    /\ lastSyncedNodes = [c \in Clients |-> NotSynced]
    /\ lastSyncedEdges = [c \in Clients |-> NotSyncedEdges]
    /\ posTimer = [c \in Clients |-> NoTimer]
    /\ isInitialized = [c \in Clients |-> FALSE]
    /\ hookNodes = [c \in Clients |-> <<>>]
    /\ hookEdges = [c \in Clients |-> <<>>]

InitOp ==
    [op |-> "init", client |-> "none", node |-> "none", ret |-> TRUE,
     events |-> NoEvents, before |-> [n \in LockNodeIds |-> NoLock],
     arg |-> NoNode, edge |-> NoEdge, deleted |-> {}, threw |-> FALSE, result |-> NoNode]

\* ------------------------------------------------------------ lock spec
\* a connection has either no user id (public-key authentication) or its own
SelfIds(c) == {NoSelf, c}

Init ==
    /\ now = 0
    /\ selfId \in {f \in [Clients -> {NoSelf} \cup Clients] :
                      \A c \in Clients : f[c] \in SelfIds(c)}
    /\ nodeLocks = [n \in LockNodeIds |-> NoLock]
    /\ lockSnap = [c \in Clients |-> [n \in LockNodeIds |-> NoLock]]
    /\ lastOp = InitOp
    /\ QueueIdle /\ DbIdle
    /\ chatOf = [c \in Clients |-> "chatA"]
    /\ flowNodes = <<>>
    /\ flowEdges = <<>>
    /\ FlowIdle

Next ==
    \/ \E c \in Clients, n \in LockNodeIds : AcquireLock(c, n)
    \/ \E c \in Clients, n \in LockNodeIds : ReleaseLock(c, n)
    \/ \E c \in Clients, n \in LockNodeIds : RenewLock(c, n)
    \/ \E c \in Clients : CleanupExpiredLocks(c)
    \/ \E c \in Clients : DeliverLocks(c)
    \/ Tick

Spec == Init /\ [][Next]_vars

TypeOK ==
    /\ now \in 0..(MaxTicks * TickMs)
    /\ \A n \in LockNodeIds : nodeLocks[n] = NoLock \/ nodeLocks[n].nodeId = n

\* ---------------------------------------------------------- store: nodes
StoreNodeIds == {"n3", "n4", "n5"}
MaxStoreTicks == 1

HasKey(m, id) == \E i \in 1..Len(m) : m[i].id = id
IndexOf(m, id) == CHOOSE i \in 1..Len(m) : m[i].id = id
Get(m, id) == m[IndexOf(m, id)]
Keys(m) == {m[i].id : i \in 1..Len(m)}
\* LiveMap.set: a present key keeps its place, a new key goes last
MapSet(m, rec) ==
    IF HasKey(m, rec.id)
    THEN [i \in 1..Len(m) |-> IF m[i].id = rec.id THEN rec ELSE m[i]]
    ELSE Append(m, rec)
MapDelete(m, id) == SelectSeq(m, LAMBDA r : r.id # id)

\* node.type || 'default'
TypeOrDefault(t) == IF t = "" THEN "default" ELSE t

LiveNode(node, chat, t) ==
    [id |-> node.id, type |-> TypeOrDefault(node.type), position |-> node.position,
     data |-> node.data, chatId |-> chat, createdAt |-> t, updatedAt |-> t]

addNodeUpsert(m, node, chat, t) == MapSet(m, LiveNode(node, chat, t))
addNode(m, node, chat, t) ==
    IF HasKey(m, node.id) THEN m ELSE MapSet(m, LiveNode(node, chat, t))

LiveEdge(edge, chat, creator, t) ==
    [id |-> edge.id, source |-> edge.source, target |-> edge.target,
     chatId |-> chat, createdAt |-> t, creatorId |-> creator]

addEdgeUpsert(m, edge, chat, creator, t) == MapSet(m, LiveEdge(edge, chat, creator, t))
addEdge(m, edge, chat, creator, t) ==
    IF HasKey(m, edge.id) THEN m ELSE MapSet(m, LiveEdge(edge, chat, creator, t))

\* deleteNode: the node record, then every edge with that source or target
EdgeTouchesSourceOnly(e, id) == e.source = id
EdgeTouches(e, id) == e.source = id \/ e.target = id
deleteNodeNodes(m, id) == MapDelete(m, id)
deleteNodeEdges(m, id) == SelectSeq(m, LAMBDA e : ~EdgeTouches(e, id))

FlowOp(name, c, node, edge, events, deleted) ==
    [op |-> name, client |-> c, node |-> node.id, ret |-> TRUE, events |-> events,
     before |-> nodeLocks, arg |-> node, edge |-> edge, deleted |-> deleted,
     threw |-> FALSE, result |-> NoNode]

StoreAddNode(c, node) ==
    /\ flowNodes' = addNode(flowNodes, node, chatOf[c], now)
    /\ lastOp' = FlowOp("addNode", c, node, NoEdge, NoEvents, {})
    /\ UNCHANGED <<now, selfId, chatOf, queueVars, dbVars, lockVars, flowEdges, flowVars>>

\* the broadcast that follows the insertion
addEdgeEvents(m, edge, chat, user) ==
    IF HasKey(m, edge.id) THEN NoEvents
    ELSE {[type |-> "edge-added", edgeId |-> edge.id, chatId |-> chat,
           userId |-> user]}

StoreAddEdge(c, edge) ==
    /\ flowEdges' = addEdge(flowEdges, edge, chatOf[c], UserIdOf(c), now)
    /\ lastOp' = FlowOp("addEdge", c, NoNode, edge,
                        addEdgeEvents(flowEdges, edge, chatOf[c], UserIdOf(c)), {})
    /\ UNCHANGED <<now, selfId, chatOf, queueVars, dbVars, lockVars, flowNodes, flowVars>>

StoreDeleteNode(c, id) ==
    /\ flowNodes' = deleteNodeNodes(flowNodes, id)
    /\ flowEdges' = deleteNodeEdges(flowEdges, id)
    \* deletedEdges: the connected edges the mutation removed
    /\ lastOp' = FlowOp("deleteNode", c, [NoNode EXCEPT !.id = id], NoEdge, NoEvents,
                        Keys(flowEdges) \ Keys(flowEdges'))
    /\ UNCHANGED <<now, selfId, chatOf, queueVars, dbVars, lockVars, flowVars>>

StoreTick ==
    /\ now < MaxStoreTicks * TickMs
    /\ now' = now + TickMs
    /\ lastOp' = Op("tick", "none", "none", TRUE, NoEvents)
    /\ UNCHANGED <<selfId, chatOf, queueVars, dbVars, lockVars, storeVars, flowVars>>

Pos(x, y) == [x |-> x, y |-> y]
AnswerData == [userMessage |-> "m1", assistantMessage |-> "a1",
               isLoading |-> "false", aux |-> "none"]
UiNode(id, type, pos, data) == [id |-> id, type |-> type, position |-> pos, data |-> data]
UiEdge(id, s, t) == [id |-> id, source |-> s, target |-> t]

\* the nodes and edges the callers pass in
StoreNodeInputs ==
    {UiNode("n3", "promptNode", Pos(0, 0), EmptyData),
     UiNode("n3", "answerNode", Pos(100, 100), AnswerData),
     UiNode("n4", "", Pos(0, 0), EmptyData),
     UiNode("n5", "answerNode", Pos(50, 50), AnswerData)}
StoreEdgeInputs ==
    {UiEdge("e1", "n3", "n4"), UiEdge("e2", "n5", "n3"), UiEdge("e6", "n4", "n5")}

InitStore ==
    /\ now = 0
    /\ selfId = [c \in Clients |-> c]
    /\ nodeLocks = [n \in LockNodeIds |-> NoLock]
    /\ lockSnap = [c \in Clients |-> [n \in LockNodeIds |-> NoLock]]
    /\ lastOp = InitOp
    /\ QueueIdle /\ DbIdle
    /\ chatOf = [c \in Clients |-> "chatA"]
    /\ flowNodes = <<>>
    /\ flowEdges = <<>>
    /\ FlowIdle

NextStore ==
    \/ \E c \in Clients, node \in StoreNodeInputs : StoreAddNode(c, node)
    \/ \E c \in Clients, edge \in StoreEdgeInputs : StoreAddEdge(c, edge)
    \/ \E c \in Clients, id \in StoreNodeIds : StoreDeleteNode(c, id)
    \/ StoreTick

SpecStore == InitStore /\ [][NextStore]_vars

\* ------------------------------------------------- store: updateNodeData
\* an absent newType is "", an absent nodePosition is NoPosition
updateNodeDataNoInsert(m, id, newData, newType, pos, chat, t) ==
    IF ~HasKey(m, id) THEN m
    ELSE IF Get(m, id).chatId # chat THEN m
    ELSE MapSet(m, [Get(m, id) EXCEPT
                       !.type = IF newType = "" THEN @ ELSE newType,
                       !.data = newData, !.updatedAt = t])
updateNodeData(m, id, newData, newType, pos, chat, t) ==
    IF ~HasKey(m, id)
    THEN IF pos = NoPosition THEN m
         ELSE MapSet(m, [id |-> id, type |-> TypeOrDefault(newType),
                         position |-> pos, data |-> newData, chatId |-> chat,
                         createdAt |-> t, updatedAt |-> t])
    ELSE IF Get(m, id).chatId # chat THEN m
    ELSE MapSet(m, [Get(m, id) EXCEPT
                       !.type = IF newType = "" THEN @ ELSE newType,
                       !.data = newData, !.updatedAt = t])

updateNodeDataEvents(m, id, newType, pos, chat, user) ==
    IF ~HasKey(m, id)
    THEN IF pos = NoPosition THEN NoEvents
         ELSE {[type |-> "node-added", nodeId |-> id,
                nodeType |-> TypeOrDefault(newType), userId |-> user]}
    ELSE IF Get(m, id).chatId # chat THEN NoEvents
    ELSE IF newType # "" /\ newType # Get(m, id).type
    THEN {[type |-> "node-transformed", nodeId |-> id,
           fromType |-> Get(m, id).type, toType |-> newType, userId |-> user]}
    ELSE {[type |-> "node-data-updated", nodeId |-> id, userId |-> user]}

StoreUpdateNodeData(c, id, newData, newType, pos) ==
    /\ flowNodes' = updateNodeData(flowNodes, id, newData, newType, pos,
                                   chatOf[c], now)
    /\ lastOp' = FlowOp("updateNodeData", c, UiNode(id, newType, pos, newData),
                        NoEdge,
                        updateNodeDataEvents(flowNodes, id, newType, pos,
                                             chatOf[c], UserIdOf(c)), {})
    /\ UNCHANGED <<now, selfId, chatOf, queueVars, dbVars, lockVars, flowEdges, flowVars>>

\* two chats share the store: c1 works in chatA, c2 in chatB
DataNodeIds == {"n3"}
DataNodeInputs == {UiNode("n3", "promptNode", Pos(0, 0), EmptyData)}
DataEdgeInputs == {UiEdge("e1", "n3", "n4")}
DataInputs == {EmptyData, AnswerData}
TypeInputs == {"", "answerNode"}
PositionInputs == {NoPosition, Pos(50, 50)}

InitData ==
    /\ now = 0
    /\ selfId = [c \in Clients |-> c]
    /\ nodeLocks = [n \in LockNodeIds |-> NoLock]
    /\ lockSnap = [c \in Clients |-> [n \in LockNodeIds |-> NoLock]]
    /\ lastOp = InitOp
    /\ QueueIdle /\ DbIdle
    /\ chatOf = [c \in Clients |-> IF c = "c1" THEN "chatA" ELSE "chatB"]
    /\ flowNodes = <<>>
    /\ flowEdges = <<>>
    /\ FlowIdle

NextData ==
    \/ \E c \in Clients, node \in DataNodeInputs : StoreAddNode(c, node)
    \/ \E c \in Clients, edge \in DataEdgeInputs : StoreAddEdge(c, edge)
    \/ \E c \in Clients, id \in DataNodeIds, newData \in DataInputs,
          newType \in TypeInputs, pos \in PositionInputs :
          StoreUpdateNodeData(c, id, newData, newType, pos)
    \/ StoreTick

SpecData == InitData /\ [][NextData]_vars

\* --------------------------------------------- calls on a failing store
\* the mutations whose body is wrapped in try / catch with a null check of the
\* map, and the ones that use the map as storage.get returned it
GuardedOps == {"addNode", "addEdge", "deleteNode", "updateNodes", "updateEdges",
               "updateNodePosition", "updateNodeData"}
UnguardedOps == {"acquireLock", "releaseLock", "renewLock", "cleanupExpiredLocks"}
CommandSurface == GuardedOps \cup UnguardedOps
\* the store access of the call: the map is missing, or the access raises
FailedAccess == {"missing", "throws"}

\* missing map: `if (!map) return` where there is one, a TypeError on the first
\* use of the map where there is none; raised error: caught and logged inside
\* try / catch, propagated without
CallThrows(op, access) == op \notin GuardedOps

FailedCall(c, op, access) ==
    /\ lastOp' = [Op(op, c, "none", FALSE, NoEvents) EXCEPT
                     !.threw = CallThrows(op, access)]
    /\ UNCHANGED <<now, selfId, chatOf, queueVars, dbVars, lockVars, storeVars, flowVars>>

InitFail ==
    /\ now = 0
    /\ selfId = [c \in Clients |-> c]
    /\ nodeLocks = [n \in LockNodeIds |-> NoLock]
    /\ lockSnap = [c \in Clients |-> [n \in LockNodeIds |-> NoLock]]
    /\ lastOp = InitOp
    /\ QueueIdle /\ DbIdle
    /\ chatOf = [c \in Clients |-> "chatA"]
    /\ flowNodes = <<>>
    /\ flowEdges = <<>>
    /\ FlowIdle

NextFail ==
    \/ \E c \in Clients, n \in LockNodeIds : AcquireLock(c, n)
    \/ \E c \in Clients, n \in LockNodeIds : ReleaseLock(c, n)
    \/ \E c \in Clients, n \in LockNodeIds : RenewLock(c, n)
    \/ \E c \in Clients : CleanupExpiredLocks(c)
    \/ Tick
    \/ \E c \in Clients, op \in CommandSurface, access \in FailedAccess :
          FailedCall(c, op, access)

SpecFail == InitFail /\ [][NextFail]_vars

\* ------------------------------------------- database row conversions
\* a coordinate is a number of hundredths; a string is a sequence of characters
DigitChars == <<"0", "1", "2", "3", "4", "5", "6", "7", "8", "9">>
NotANumber == -1000000000

RECURSIVE Digits(_)
Digits(n) == IF n < 10 THEN <<DigitChars[n + 1]>>
             ELSE Digits(n \div 10) \o <<DigitChars[(n % 10) + 1]>>

\* Number.prototype.toString: sign, integer part, and the fraction without
\* trailing zeros
NumberToString(h) ==
    LET a == IF h < 0 THEN -h ELSE h
        fp == a % 100
        frac == IF fp = 0 THEN <<>>
                ELSE IF fp % 10 = 0 THEN <<".", DigitChars[(fp \div 10) + 1]>>
                ELSE <<".", DigitChars[(fp \div 10) + 1], DigitChars[(fp % 10) + 1]>>
    IN  (IF h < 0 THEN <<"-">> ELSE <<>>) \o Digits(a \div 100) \o frac

IsDigit(ch) == \E d \in 1..10 : DigitChars[d] = ch
DigitValue(ch) == (CHOOSE d \in 1..10 : DigitChars[d] = ch) - 1

\* the longest run of digits of str from position i on
RECURSIVE DigitRun(_, _)
DigitRun(str, i) ==
    IF i <= Len(str) /\ IsDigit(str[i]) THEN <<str[i]>> \o DigitRun(str, i + 1)
    ELSE <<>>
RECURSIVE DigitsValue(_, _)
DigitsValue(run, acc) ==
    IF run = <<>> THEN acc ELSE DigitsValue(Tail(run), acc * 10 + DigitValue(Head(run)))

\* parseFloat: optional sign, digits, optional "." and digits; NaN without digits
parseFloatNoFraction(str) ==
    LET neg == Len(str) > 0 /\ str[1] = "-"
        start == IF neg THEN 2 ELSE 1
        ip == DigitRun(str, start)
    IN  IF ip = <<>> THEN NotANumber
        ELSE (IF neg THEN -1 ELSE 1) * DigitsValue(ip, 0) * 100
parseFloat(str) ==
    LET neg == Len(str) > 0 /\ str[1] = "-"
        start == IF neg THEN 2 ELSE 1
        ip == DigitRun(str, start)
        dot == start + Len(ip)
        fr == IF dot <= Len(str) /\ str[dot] = "." THEN DigitRun(str, dot + 1)
              ELSE <<>>
        f1 == IF Len(fr) >= 1 THEN DigitValue(fr[1]) ELSE 0
        f2 == IF Len(fr) >= 2 THEN DigitValue(fr[2]) ELSE 0
    IN  IF ip = <<>> /\ fr = <<>> THEN NotANumber
        ELSE (IF neg THEN -1 ELSE 1) * (DigitsValue(ip, 0) * 100 + f1 * 10 + f2)

reactFlowNodeToDb(node, chat) ==
    [id |-> node.id, chatId |-> chat, type |-> TypeOrDefault(node.type),
     positionX |-> NumberToString(node.position.x),
     positionY |-> NumberToString(node.position.y),
     data |-> node.data]

dbNodeToReactFlow(dbNode) ==
    [id |-> dbNode.id, type |-> dbNode.type,
     position |-> [x |-> parseFloat(dbNode.positionX),
                   y |-> parseFloat(dbNode.positionY)],
     data |-> dbNode.data]

\* -1.5, -0.07, 0, 0.5, 100, 123.45 and 3000.1
CoordInputs == {-150, -7, 0, 50, 10000, 12345, 300010}
ConvTypeInputs == {"", "promptNode", "answerNode"}
ConvNodeInputs ==
    {UiNode(id, t, Pos(x, y), d) :
        id \in {"n3"}, t \in ConvTypeInputs, x \in CoordInputs, y \in CoordInputs,
        d \in DataInputs}

RoundTrip(node, chat) ==
    /\ lastOp' = [Op("roundTrip", "none", node.id, TRUE, NoEvents) EXCEPT
                     !.arg = node,
                     !.result = dbNodeToReactFlow(reactFlowNodeToDb(node, chat))]
    /\ UNCHANGED <<now, selfId, chatOf, queueVars, dbVars, lockVars, storeVars, flowVars>>

InitConv ==
    /\ now = 0
    /\ selfId = [c \in Clients |-> c]
    /\ nodeLocks = [n \in LockNodeIds |-> NoLock]
    /\ lockSnap = [c \in Clients |-> [n \in LockNodeIds |-> NoLock]]
    /\ lastOp = InitOp
    /\ QueueIdle /\ DbIdle
    /\ chatOf = [c \in Clients |-> "chatA"]
    /\ flowNodes = <<>>
    /\ flowEdges = <<>>
    /\ FlowIdle

NextConv == \E node \in ConvNodeInputs, chat \in {"chatA", "chatB"} : RoundTrip(node, chat)

SpecConv == InitConv /\ [][NextConv]_vars

\* ------------------------------------------------- ChatFlow: reconciliation
FollowUpIds == {"p1"}
FlowNodeIds == {"prompt-initial"} \cup FollowUpIds
DragPositions == {Pos(50, 50)}
\* who writes and who rearranges in the explored sessions
Authors == {"c1"}
Draggers == {"c2"}

Ids(list) == [i \in 1..Len(list) |-> list[i].id]

\* the hook's sync effect: the records of this chat as UI nodes / edges
ToUiNode(r) == [id |-> r.id, type |-> r.type, position |-> r.position, data |-> r.data]
ToUiEdge(r) == [id |-> r.id, source |-> r.source, target |-> r.target]
StoreNodesOf(c) ==
    LET mine == SelectSeq(flowNodes, LAMBDA r : r.chatId = chatOf[c])
    IN  [i \in 1..Len(mine) |-> ToUiNode(mine[i])]
StoreEdgesOf(c) ==
    LET mine == SelectSeq(flowEdges, LAMBDA r : r.chatId = chatOf[c])
    IN  [i \in 1..Len(mine) |-> ToUiEdge(mine[i])]

\* localNodesRef / localEdgesRef of the hook
HookNodes(c) == hookNodes[c]
HookEdges(c) == hookEdges[c]

\* handleNodesChangeFromLiveblocks: the two early returns
NeverSkipped(local, remote) == FALSE
MergeSkipped(local, remote) ==
    \/ Len(remote) = 0 /\ Len(local) > 0
    \/ Len(local) > Len(remote)

DemotionGuardOff(localNode, newNode) == FALSE
DemotionGuard(localNode, newNode) ==
    localNode.type = "answerNode" /\ newNode.type = "promptNode"

\* { ...localData, ...newNode.data, userMessage, assistantMessage, isLoading }
MergeAnswerDataRemoteWins(localData, newData) == newData
MergeAnswerData(localData, newData) ==
    [userMessage |-> localData.userMessage,
     assistantMessage |-> localData.assistantMessage,
     isLoading |-> localData.isLoading,
     aux |-> IF newData.aux # "none" THEN newData.aux ELSE localData.aux]

IsDraggedNever(id, dragging) == FALSE
IsDragged(id, dragging) == id \in dragging

MergeNode(localNode, remote, dragging) ==
    IF IsDragged(localNode.id, dragging) THEN localNode
    ELSE IF HasKey(remote, localNode.id)
    THEN LET newNode == Get(remote, localNode.id)
         IN  IF DemotionGuard(localNode, newNode) THEN localNode
             ELSE IF localNode.type = "answerNode"
             THEN [id |-> newNode.id, type |-> "answerNode",
                   position |-> newNode.position,
                   data |-> MergeAnswerData(localNode.data, newNode.data)]
             ELSE newNode
    ELSE localNode

AppendAlways(merged, newNode) == TRUE
IsNewToMerged(merged, newNode) == ~HasKey(merged, newNode.id)

RECURSIVE AppendNew(_, _, _)
AppendNew(merged, remote, i) ==
    IF i > Len(remote) THEN merged
    ELSE AppendNew(IF IsNewToMerged(merged, remote[i])
                   THEN Append(merged, remote[i]) ELSE merged,
                   remote, i + 1)

reconcileNodesFromRemote(local, remote, dragging) == remote
reconcileNodes(local, remote, dragging) ==
    AppendNew([i \in 1..Len(local) |-> MergeNode(local[i], remote, dragging)],
              remote, 1)

\* handleEdgesChangeFromLiveblocks
EdgeMergeSkipped(local, remote) == Len(local) > Len(remote)
reconcileEdges(local, remote) ==
    AppendNew([i \in 1..Len(local) |->
                  IF HasKey(remote, local[i].id) THEN Get(remote, local[i].id)
                  ELSE local[i]],
              remote, 1)

FlowRet(name, c, id, ret) ==
    [op |-> name, client |-> c, node |-> id, ret |-> ret, events |-> NoEvents,
     before |-> nodeLocks, arg |-> NoNode, edge |-> NoEdge, deleted |-> {},
     threw |-> FALSE, result |-> NoNode]

\* a local edit: what the last reconciliation returned is no longer current
FlowEdit == FlowRet("edit", "none", "none", TRUE)

\* handleNodesChangeFromLiveblocks(newNodes) of client c
HandleNodes(c, name, newNodes) ==
    IF MergeSkipped(nodesLocal[c], newNodes)
    THEN /\ lastOp' = FlowRet("skipped", "none", "none", FALSE)
         /\ UNCHANGED <<nodesLocal, isReceiving>>
    ELSE /\ isReceiving' = [isReceiving EXCEPT ![c] = TRUE]
         /\ nodesLocal' = [nodesLocal EXCEPT ![c] =
                reconcileNodes(nodesLocal[c], newNodes, draggingNodes[c])]
         /\ lastOp' = FlowRet(name, c, "none", TRUE)

\* the store's node map changed and the change reaches client c: the hook's sync
\* effect rebuilds the list and, when it differs from the last one, hands it to
\* handleNodesChangeFromLiveblocks
DeliverNodes(c) ==
    /\ isStorageLoaded[c]
    /\ StoreNodesOf(c) # lastSyncedNodes[c]
    /\ lastSyncedNodes' = [lastSyncedNodes EXCEPT ![c] = StoreNodesOf(c)]
    /\ hookNodes' = [hookNodes EXCEPT ![c] = StoreNodesOf(c)]
    /\ HandleNodes(c, "deliverNodes", StoreNodesOf(c))
    /\ UNCHANGED <<now, selfId, chatOf, queueVars, dbVars, lockVars, storeVars, isStorageLoaded,
                   edgesLocal, draggingNodes, lastSyncedEdges, posTimer,
                   isInitialized, hookEdges>>

\* a node-locked / node-unlocked event arrives: the listener hands the hook's
\* cached list to handleNodesChangeFromLiveblocks again
LockEvent(c) ==
    /\ HandleNodes(c, "lockEvent", HookNodes(c))
    /\ UNCHANGED <<now, selfId, chatOf, queueVars, dbVars, lockVars, storeVars, isStorageLoaded,
                   edgesLocal, draggingNodes, lastSyncedNodes, lastSyncedEdges,
                   posTimer,
                   isInitialized, hookNodes, hookEdges>>

\* syncEdgesFromStorage (on a store change, the edge-added event, or the
\* periodic check) finds another edge count than the cached list has, or
\* another list than the one last synced
EdgesChanged(c) ==
    \/ Len(StoreEdgesOf(c)) # Len(hookEdges[c])
    \/ StoreEdgesOf(c) # lastSyncedEdges[c]

DeliverEdges(c) ==
    /\ isStorageLoaded[c]
    /\ EdgesChanged(c)
    /\ lastSyncedEdges' = [lastSyncedEdges EXCEPT ![c] = StoreEdgesOf(c)]
    /\ hookEdges' = [hookEdges EXCEPT ![c] = StoreEdgesOf(c)]
    /\ IF EdgeMergeSkipped(edgesLocal[c], StoreEdgesOf(c))
       THEN /\ lastOp' = FlowRet("skipped", "none", "none", FALSE)
            /\ UNCHANGED <<edgesLocal, isReceiving>>
       ELSE /\ isReceiving' = [isReceiving EXCEPT ![c] = TRUE]
            /\ edgesLocal' = [edgesLocal EXCEPT ![c] =
                   reconcileEdges(edgesLocal[c], StoreEdgesOf(c))]
            /\ lastOp' = FlowRet("deliverEdges", c, "none", TRUE)
    /\ UNCHANGED <<now, selfId, chatOf, queueVars, dbVars, lockVars, storeVars, isStorageLoaded,
                   nodesLocal, draggingNodes, lastSyncedNodes, posTimer,
                   isInitialized, hookNodes>>

\* the microtask queued by the merge; it runs before any other task of the client
ResetReceiving(c) ==
    /\ isReceiving[c]
    /\ isReceiving' = [isReceiving EXCEPT ![c] = FALSE]
    /\ UNCHANGED <<lastOp, now, selfId, chatOf, queueVars, dbVars, lockVars,
                   storeVars, isStorageLoaded,
                   nodesLocal, edgesLocal, draggingNodes, lastSyncedNodes,
                   lastSyncedEdges, posTimer,
                   isInitialized, hookNodes, hookEdges>>

\* ------------------------------------------------- ChatFlow: local edits
SetPosition(list, id, pos) ==
    [i \in 1..Len(list) |->
        IF list[i].id = id THEN [list[i] EXCEPT !.position = pos] ELSE list[i]]

\* updateNodePosition: only position and updatedAt of a record of this chat
updateNodePosition(m, id, pos, chat, t) ==
    IF HasKey(m, id) /\ Get(m, id).chatId = chat
    THEN MapSet(m, [Get(m, id) EXCEPT !.position = pos, !.updatedAt = t])
    ELSE m

\* onNodesChange([{type: 'position', id, position: pos, dragging: true}])
DragMove(c, id, pos) ==
    /\ isInitialized[c]
    /\ ~isReceiving[c]
    /\ HasKey(nodesLocal[c], id)
    /\ nodesLocal' = [nodesLocal EXCEPT ![c] = SetPosition(nodesLocal[c], id, pos)]
    /\ draggingNodes' = [draggingNodes EXCEPT ![c] =
            IF ~isReceiving[c] /\ isStorageLoaded[c] THEN @ \cup {id} ELSE @]
    /\ lastOp' = FlowEdit
    /\ UNCHANGED <<now, selfId, chatOf, queueVars, dbVars, lockVars, storeVars, isStorageLoaded,
                   edgesLocal, isReceiving, lastSyncedNodes, lastSyncedEdges,
                   posTimer,
                   isInitialized, hookNodes, hookEdges>>

\* onNodesChange([{type: 'position', id, position, dragging: false}]) with the
\* position the gesture ended at; the write goes through the debounced
\* updateNodePosition the hook returns, which replaces a pending call
DragEnd(c, id) ==
    /\ isInitialized[c]
    /\ ~isReceiving[c]
    /\ HasKey(nodesLocal[c], id)
    /\ id \in draggingNodes[c]
    /\ IF ~isReceiving[c] /\ isStorageLoaded[c] /\ id \in draggingNodes[c]
       THEN /\ draggingNodes' = [draggingNodes EXCEPT ![c] = @ \ {id}]
            /\ posTimer' = [posTimer EXCEPT ![c] =
                   [id |-> id, position |-> Get(nodesLocal[c], id).position]]
       ELSE UNCHANGED <<draggingNodes, posTimer>>
    /\ lastOp' = FlowEdit
    /\ UNCHANGED <<now, selfId, chatOf, queueVars, dbVars, lockVars, storeVars, isStorageLoaded,
                   nodesLocal, edgesLocal, isReceiving, lastSyncedNodes,
                   lastSyncedEdges,
                   isInitialized, hookNodes, hookEdges>>

\* the debounce delay has passed: updateNodePosition runs on the store
PosTimerFires(c) ==
    /\ ~isReceiving[c]
    /\ posTimer[c] # NoTimer
    /\ flowNodes' = updateNodePosition(flowNodes, posTimer[c].id,
                                       posTimer[c].position, chatOf[c], now)
    /\ posTimer' = [posTimer EXCEPT ![c] = NoTimer]
    /\ lastOp' = FlowEdit
    /\ UNCHANGED <<now, selfId, chatOf, queueVars, dbVars, lockVars, flowEdges, isStorageLoaded,
                   nodesLocal, edgesLocal, draggingNodes, isReceiving,
                   lastSyncedNodes, lastSyncedEdges,
                   isInitialized, hookNodes, hookEdges>>

\* a user message is observed: the first unassigned prompt node (prompt-initial
\* when there is one) becomes an answer node, locally
PromptIndexes(list) == {i \in 1..Len(list) : list[i].type = "promptNode"}
AvailablePrompt(list) ==
    IF \E i \in PromptIndexes(list) : list[i].id = "prompt-initial"
    THEN CHOOSE i \in PromptIndexes(list) : list[i].id = "prompt-initial"
    ELSE CHOOSE i \in PromptIndexes(list) : \A j \in PromptIndexes(list) : i <= j

\* the user message sent from a prompt node, and the assistant's reply to it
UserMessage(id) == "msg-" \o id
AssistantMessage == "a1"

TransformToAnswer(c) ==
    /\ isInitialized[c]
    /\ ~isReceiving[c]
    /\ PromptIndexes(nodesLocal[c]) # {}
    /\ LET k == AvailablePrompt(nodesLocal[c])
       IN  /\ nodesLocal' = [nodesLocal EXCEPT ![c][k] =
                  [@ EXCEPT !.type = "answerNode",
                            !.data = [userMessage |-> UserMessage(nodesLocal[c][k].id),
                                      assistantMessage |-> "none",
                                      isLoading |-> "true", aux |-> c]]]
           /\ lastOp' = FlowEdit
    /\ UNCHANGED <<now, selfId, chatOf, queueVars, dbVars, lockVars, storeVars, isStorageLoaded,
                   edgesLocal, draggingNodes, isReceiving, lastSyncedNodes,
                   lastSyncedEdges, posTimer,
                   isInitialized, hookNodes, hookEdges>>

\* the assistant message answering the user message of node id is observed
AssistantArrives(c, id) ==
    /\ isInitialized[c]
    /\ ~isReceiving[c]
    /\ \E i \in 1..Len(nodesLocal[c]) :
          /\ nodesLocal[c][i].type = "answerNode"
          /\ nodesLocal[c][i].data.userMessage = UserMessage(id)
          /\ nodesLocal[c][i].data.assistantMessage = "none"
    /\ nodesLocal' = [nodesLocal EXCEPT ![c] =
          [i \in 1..Len(@) |->
              IF @[i].type = "answerNode" /\ @[i].data.userMessage = UserMessage(id)
              THEN [@[i] EXCEPT !.data.assistantMessage = AssistantMessage,
                                !.data.isLoading = "false"]
              ELSE @[i]]]
    /\ lastOp' = FlowEdit
    /\ UNCHANGED <<now, selfId, chatOf, queueVars, dbVars, lockVars, storeVars, isStorageLoaded,
                   edgesLocal, draggingNodes, isReceiving, lastSyncedNodes,
                   lastSyncedEdges, posTimer, isInitialized, hookNodes, hookEdges>>

PromptData(c) == [EmptyData EXCEPT !.aux = c]
PromptInitial(c) == UiNode("prompt-initial", "promptNode", Pos(100, 300), PromptData(c))

\* initializeFlow of a new chat with no saved nodes and no messages: a client
\* that finds records of the chat in the store keeps what reconciliation gives
\* it, the first one starts from the initial prompt node
StoreHasData(c) == \E i \in 1..Len(flowNodes) : flowNodes[i].chatId = chatOf[c]
InitializeFlow(c) ==
    /\ isStorageLoaded[c]
    /\ ~isInitialized[c]
    /\ isInitialized' = [isInitialized EXCEPT ![c] = TRUE]
    /\ IF StoreHasData(c)
       THEN UNCHANGED <<nodesLocal, edgesLocal>>
       ELSE /\ nodesLocal' = [nodesLocal EXCEPT ![c] = <<PromptInitial(c)>>]
            /\ edgesLocal' = [edgesLocal EXCEPT ![c] = <<>>]
    /\ lastOp' = FlowEdit
    /\ UNCHANGED <<now, selfId, chatOf, queueVars, dbVars, lockVars, storeVars, isStorageLoaded,
                   draggingNodes, isReceiving, lastSyncedNodes, lastSyncedEdges,
                   posTimer, hookNodes, hookEdges>>

\* handleAddNewNodeFromAnswer(parentId, 'right') with id = `prompt-${Date.now()}`
AddFollowUp(c, parentId, id) ==
    /\ isInitialized[c]
    /\ ~isReceiving[c]
    /\ HasKey(nodesLocal[c], parentId)
    /\ Get(nodesLocal[c], parentId).type = "answerNode"
    /\ \A d \in Clients : ~HasKey(nodesLocal[d], id)
    /\ ~HasKey(flowNodes, id)
    /\ LET parent == Get(nodesLocal[c], parentId)
           newNode == UiNode(id, "promptNode",
                             Pos(parent.position.x + 600, parent.position.y),
                             PromptData(c))
           newEdge == UiEdge("edge-" \o parentId \o "-" \o id, parentId, id)
       IN  /\ nodesLocal' = [nodesLocal EXCEPT ![c] = Append(@, newNode)]
           /\ edgesLocal' = [edgesLocal EXCEPT ![c] = Append(@, newEdge)]
           /\ IF isStorageLoaded[c]
              THEN /\ flowNodes' = addNode(flowNodes, newNode, chatOf[c], now)
                   /\ flowEdges' = addEdge(flowEdges, newEdge, chatOf[c],
                                           UserIdOf(c), now)
              ELSE UNCHANGED storeVars
           /\ lastOp' = FlowEdit
    /\ UNCHANGED <<now, selfId, chatOf, queueVars, dbVars, lockVars, isStorageLoaded, draggingNodes,
                   isReceiving, lastSyncedNodes, lastSyncedEdges, posTimer,
                   isInitialized, hookNodes, hookEdges>>

\* onCancel of the follow-up prompt node id created under parentId: the node and
\* the edge from its parent are removed locally, then deleteNode
CancelPrompt(c, parentId, id) ==
    /\ isInitialized[c]
    /\ ~isReceiving[c]
    /\ HasKey(nodesLocal[c], id)
    /\ Get(nodesLocal[c], id).type = "promptNode"
    /\ HasKey(edgesLocal[c], "edge-" \o parentId \o "-" \o id)
    /\ nodesLocal' = [nodesLocal EXCEPT ![c] = SelectSeq(@, LAMBDA n : n.id # id)]
    /\ edgesLocal' = [edgesLocal EXCEPT ![c] =
                         SelectSeq(@, LAMBDA e : e.source # parentId \/ e.target # id)]
    /\ IF isStorageLoaded[c]
       THEN /\ flowNodes' = deleteNodeNodes(flowNodes, id)
            /\ flowEdges' = deleteNodeEdges(flowEdges, id)
       ELSE UNCHANGED storeVars
    /\ lastOp' = FlowEdit
    /\ UNCHANGED <<now, selfId, chatOf, queueVars, dbVars, lockVars, isStorageLoaded, draggingNodes,
                   isReceiving, lastSyncedNodes, lastSyncedEdges, posTimer,
                   isInitialized, hookNodes, hookEdges>>

\* ------------------------------------------- ChatFlow: change callbacks
\* applyEdgeChanges([{type: 'remove', id}], list)
applyEdgeRemove(list, id) == SelectSeq(list, LAMBDA e : e.id # id)

\* updateEdges: every resulting edge is written (an edge of another chat is
\* skipped), then the chat's records absent from the result are deleted
RECURSIVE WriteEdges(_, _, _, _, _)
WriteEdges(m, list, chat, user, t) ==
    IF list = <<>> THEN m
    ELSE LET e == Head(list)
             present == HasKey(m, e.id)
             rec == [id |-> e.id, source |-> e.source, target |-> e.target,
                     chatId |-> chat,
                     createdAt |-> IF present THEN Get(m, e.id).createdAt ELSE t,
                     creatorId |-> IF present THEN Get(m, e.id).creatorId ELSE user]
         IN  WriteEdges(IF present /\ Get(m, e.id).chatId # chat THEN m
                        ELSE MapSet(m, rec),
                        Tail(list), chat, user, t)
updateEdges(m, updated, chat, user, t) ==
    SelectSeq(WriteEdges(m, updated, chat, user, t),
              LAMBDA r : ~(r.chatId = chat /\ ~HasKey(updated, r.id)))

\* if (isReceivingUpdatesRef.current) return
EchoNeverSuppressed(c) == FALSE
EchoSuppressed(c) == isReceiving[c]

\* onNodesChange([{type: 'position', id, position: pos, dragging}]), whenever the
\* canvas emits it
OnNodesChange(c, id, pos, dragging) ==
    /\ HasKey(nodesLocal[c], id)
    /\ nodesLocal' = [nodesLocal EXCEPT ![c] = SetPosition(nodesLocal[c], id, pos)]
    /\ IF EchoSuppressed(c) \/ ~isStorageLoaded[c]
       THEN UNCHANGED <<draggingNodes, posTimer>>
       ELSE IF dragging
       THEN /\ draggingNodes' = [draggingNodes EXCEPT ![c] = @ \cup {id}]
            /\ UNCHANGED posTimer
       ELSE IF id \in draggingNodes[c]
       THEN /\ draggingNodes' = [draggingNodes EXCEPT ![c] = @ \ {id}]
            /\ posTimer' = [posTimer EXCEPT ![c] = [id |-> id, position |-> pos]]
       ELSE UNCHANGED <<draggingNodes, posTimer>>
    /\ lastOp' = FlowRet("onNodesChange", c, id, TRUE)
    /\ UNCHANGED <<now, selfId, chatOf, queueVars, dbVars, lockVars, storeVars, isStorageLoaded,
                   edgesLocal, isReceiving, lastSyncedNodes, lastSyncedEdges,
                   isInitialized, hookNodes, hookEdges>>

\* onEdgesChange([{type: 'remove', id}])
OnEdgesChange(c, id) ==
    /\ HasKey(edgesLocal[c], id)
    /\ edgesLocal' = [edgesLocal EXCEPT ![c] = applyEdgeRemove(@, id)]
    /\ IF EchoSuppressed(c) \/ ~isStorageLoaded[c]
       THEN UNCHANGED <<flowEdges, hookEdges>>
       ELSE /\ flowEdges' = updateEdges(flowEdges, applyEdgeRemove(hookEdges[c], id),
                                        chatOf[c], UserIdOf(c), now)
            /\ hookEdges' = [hookEdges EXCEPT ![c] = applyEdgeRemove(@, id)]
    /\ lastOp' = FlowRet("onEdgesChange", c, id, TRUE)
    /\ UNCHANGED <<now, selfId, chatOf, queueVars, dbVars, lockVars, flowNodes, isStorageLoaded,
                   nodesLocal, draggingNodes, isReceiving, lastSyncedNodes,
                   lastSyncedEdges, posTimer, isInitialized, hookNodes>>

EchoNodeInputs == {UiNode("p1", "promptNode", Pos(700, 300), EmptyData)}
EchoEdgeInputs == {UiEdge("edge-prompt-initial-p1", "prompt-initial", "p1")}

InitEcho ==
    /\ now = 0
    /\ selfId = [c \in Clients |-> c]
    /\ nodeLocks = [n \in LockNodeIds |-> NoLock]
    /\ lockSnap = [c \in Clients |-> [n \in LockNodeIds |-> NoLock]]
    /\ lastOp = InitOp
    /\ QueueIdle /\ DbIdle
    /\ chatOf = [c \in Clients |-> "chatA"]
    /\ flowNodes = <<>>
    /\ flowEdges = <<>>
    /\ FlowIdle

\* the author writes the shared store; the other client's canvas receives
\* the snapshots and emits the change callbacks
NextEcho ==
    \/ \E c \in Draggers : InitializeFlow(c)
    \/ \E c \in Authors, node \in EchoNodeInputs : StoreAddNode(c, node)
    \/ \E c \in Authors, edge \in EchoEdgeInputs : StoreAddEdge(c, edge)
    \/ \E c \in Draggers : DeliverNodes(c)
    \/ \E c \in Draggers : DeliverEdges(c)
    \/ \E c \in Draggers : ResetReceiving(c)
    \/ \E c \in Draggers, id \in FollowUpIds, pos \in DragPositions,
          dragging \in BOOLEAN : OnNodesChange(c, id, pos, dragging)
    \/ \E c \in Draggers, edge \in EchoEdgeInputs : OnEdgesChange(c, edge.id)
    \/ \E c \in Draggers : PosTimerFires(c)

\* the microtask that resets the flag always runs
SpecEcho ==
    /\ InitEcho /\ [][NextEcho]_vars
    /\ \A c \in Clients : WF_vars(ResetReceiving(c))

\* ------------------------------------------ hook: updateNodes / updateEdges
\* applyNodeChanges([change], list): a remove change drops the node; a select
\* change touches only the selected flag, which no store record carries
applyNodeChange(list, change) ==
    IF change.type = "remove" THEN SelectSeq(list, LAMBDA n : n.id # change.id)
    ELSE list
applyEdgeChange(list, change) ==
    IF change.type = "remove" THEN applyEdgeRemove(list, change.id)
    ELSE list

\* updateNodes: every resulting node is written under this chat, then the
\* chat's records absent from the result are deleted
RECURSIVE WriteNodes(_, _, _, _)
WriteNodes(m, list, chat, t) ==
    IF list = <<>> THEN m
    ELSE LET node == Head(list)
             rec == [id |-> node.id, type |-> TypeOrDefault(node.type),
                     position |-> node.position, data |-> node.data,
                     chatId |-> chat,
                     createdAt |-> IF HasKey(m, node.id)
                                   THEN Get(m, node.id).createdAt ELSE t,
                     updatedAt |-> t]
         IN  WriteNodes(MapSet(m, rec), Tail(list), chat, t)
updateNodesKeepAbsent(m, updated, chat, t) == WriteNodes(m, updated, chat, t)
updateNodes(m, updated, chat, t) ==
    SelectSeq(WriteNodes(m, updated, chat, t),
              LAMBDA r : ~(r.chatId = chat /\ ~HasKey(updated, r.id)))

StoreUpdateNodes(c, change) ==
    /\ flowNodes' = updateNodes(flowNodes, applyNodeChange(hookNodes[c], change),
                                chatOf[c], now)
    /\ hookNodes' = [hookNodes EXCEPT ![c] = applyNodeChange(@, change)]
    /\ lastOp' = FlowOp("updateNodes", c,
                        [NoNode EXCEPT !.id = change.id, !.type = change.type],
                        NoEdge, NoEvents, Keys(flowNodes) \ Keys(flowNodes'))
    /\ UNCHANGED <<now, selfId, chatOf, queueVars, dbVars, lockVars, flowEdges, isStorageLoaded,
                   nodesLocal, edgesLocal, draggingNodes, isReceiving,
                   lastSyncedNodes, lastSyncedEdges, posTimer, isInitialized,
                   hookEdges>>

StoreUpdateEdges(c, change) ==
    /\ flowEdges' = updateEdges(flowEdges, applyEdgeChange(hookEdges[c], change),
                                chatOf[c], UserIdOf(c), now)
    /\ hookEdges' = [hookEdges EXCEPT ![c] = applyEdgeChange(@, change)]
    /\ lastOp' = FlowOp("updateEdges", c, NoNode,
                        [NoEdge EXCEPT !.id = change.id, !.source = change.type],
                        NoEvents, Keys(flowEdges) \ Keys(flowEdges'))
    /\ UNCHANGED <<now, selfId, chatOf, queueVars, dbVars, lockVars, flowNodes, isStorageLoaded,
                   nodesLocal, edgesLocal, draggingNodes, isReceiving,
                   lastSyncedNodes, lastSyncedEdges, posTimer, isInitialized,
                   hookNodes>>

StoreUpdateNodePosition(c, id, pos) ==
    /\ flowNodes' = updateNodePosition(flowNodes, id, pos, chatOf[c], now)
    /\ lastOp' = FlowOp("updateNodePosition", c,
                        [NoNode EXCEPT !.id = id, !.position = pos],
                        NoEdge, NoEvents, {})
    /\ UNCHANGED <<now, selfId, chatOf, queueVars, dbVars, lockVars, flowEdges, flowVars>>

\* the sync effects of a hook whose consumer passes no onNodesChange /
\* onEdgesChange callback: only the hook's own cache follows the store
SyncNodes(c) ==
    /\ isStorageLoaded[c]
    /\ StoreNodesOf(c) # lastSyncedNodes[c]
    /\ lastSyncedNodes' = [lastSyncedNodes EXCEPT ![c] = StoreNodesOf(c)]
    /\ hookNodes' = [hookNodes EXCEPT ![c] = StoreNodesOf(c)]
    /\ lastOp' = FlowRet("syncNodes", c, "none", TRUE)
    /\ UNCHANGED <<now, selfId, chatOf, queueVars, dbVars, lockVars, storeVars, isStorageLoaded,
                   nodesLocal, edgesLocal, draggingNodes, isReceiving,
                   lastSyncedEdges, posTimer, isInitialized, hookEdges>>
SyncEdges(c) ==
    /\ isStorageLoaded[c]
    /\ EdgesChanged(c)
    /\ lastSyncedEdges' = [lastSyncedEdges EXCEPT ![c] = StoreEdgesOf(c)]
    /\ hookEdges' = [hookEdges EXCEPT ![c] = StoreEdgesOf(c)]
    /\ lastOp' = FlowRet("syncEdges", c, "none", TRUE)
    /\ UNCHANGED <<now, selfId, chatOf, queueVars, dbVars, lockVars, storeVars, isStorageLoaded,
                   nodesLocal, edgesLocal, draggingNodes, isReceiving,
                   lastSyncedNodes, posTimer, isInitialized, hookNodes>>

Change(type, id) == [type |-> type, id |-> id]
HookNodeIds == {"n3", "n4"}
HookNodeInputs == {UiNode("n3", "promptNode", Pos(0, 0), EmptyData),
                   UiNode("n4", "answerNode", Pos(100, 100), AnswerData)}
HookEdgeInputs == {UiEdge("e1", "n3", "n4")}
NodeChangeInputs == {Change(t, id) : t \in {"remove", "select"}, id \in HookNodeIds}
EdgeChangeInputs == {Change(t, "e1") : t \in {"remove", "select"}}

\* the calling client c2 works in chatA; the author c1 works in the same chat
\* or in chatB
InitHook ==
    /\ now = 0
    /\ selfId = [c \in Clients |-> c]
    /\ nodeLocks = [n \in LockNodeIds |-> NoLock]
    /\ lockSnap = [c \in Clients |-> [n \in LockNodeIds |-> NoLock]]
    /\ lastOp = InitOp
    /\ QueueIdle /\ DbIdle
    /\ chatOf \in {[c \in Clients |-> IF c \in Draggers THEN "chatA" ELSE chat] :
                        chat \in {"chatA", "chatB"}}
    /\ flowNodes = <<>>
    /\ flowEdges = <<>>
    /\ FlowIdle

NextHook ==
    \/ \E c \in Clients, node \in HookNodeInputs : StoreAddNode(c, node)
    \/ \E c \in Authors, edge \in HookEdgeInputs : StoreAddEdge(c, edge)
    \/ \E c \in Draggers, change \in NodeChangeInputs : StoreUpdateNodes(c, change)
    \/ \E c \in Draggers, change \in EdgeChangeInputs : StoreUpdateEdges(c, change)
    \/ \E c \in Authors : StoreUpdateNodePosition(c, "n3", Pos(50, 50))
    \/ \E c \in Authors :
          StoreUpdateNodeData(c, "n3", AnswerData, "answerNode", NoPosition)
    \/ \E c \in Draggers : SyncNodes(c)
    \/ \E c \in Draggers : SyncEdges(c)
    \/ StoreTick

SpecHook == InitHook /\ [][NextHook]_vars

\* ------------------------------------------ ChatFlow: before storage loads
\* a chat opened with two exchanges: messagesToNodesAndEdges gives the canvas
\* and the hook their initial lists before the storage snapshot has arrived
ConversationData(m) == [userMessage |-> m, assistantMessage |-> "a-" \o m,
                        isLoading |-> "false", aux |-> "none"]
InitialNodes ==
    <<UiNode("conversation-m1", "conversationNode", Pos(300, 0), ConversationData("m1")),
      UiNode("conversation-m2", "conversationNode", Pos(300, 280), ConversationData("m2"))>>
InitialEdges ==
    <<UiEdge("edge-conversation-m1-conversation-m2", "conversation-m1", "conversation-m2")>>
GateNodeIds == {"conversation-m1", "conversation-m2"}
DroppedIds == {"p1"}

\* initializeStorage: the initial lists are written when the chat has no
\* record of that kind yet
RECURSIVE SetNodes(_, _, _, _)
SetNodes(m, list, chat, t) ==
    IF list = <<>> THEN m
    ELSE SetNodes(MapSet(m, LiveNode(Head(list), chat, t)), Tail(list), chat, t)
RECURSIVE SetEdges(_, _, _, _, _)
SetEdges(m, list, chat, user, t) ==
    IF list = <<>> THEN m
    ELSE SetEdges(MapSet(m, LiveEdge(Head(list), chat, user, t)), Tail(list),
                  chat, user, t)
initializeStorageNodes(m, nodes, chat, t) ==
    IF (\E i \in 1..Len(m) : m[i].chatId = chat) \/ nodes = <<>> THEN m
    ELSE SetNodes(m, nodes, chat, t)
initializeStorageEdges(m, edges, chat, user, t) ==
    IF (\E i \in 1..Len(m) : m[i].chatId = chat) \/ edges = <<>> THEN m
    ELSE SetEdges(m, edges, chat, user, t)

\* the snapshot arrives at client c; the hook's mount effect then runs
\* initializeStorage with the initial lists
StorageLoads(c) ==
    /\ ~isStorageLoaded[c]
    /\ isStorageLoaded' = [isStorageLoaded EXCEPT ![c] = TRUE]
    /\ flowNodes' = initializeStorageNodes(flowNodes, InitialNodes, chatOf[c], now)
    /\ flowEdges' = initializeStorageEdges(flowEdges, InitialEdges, chatOf[c],
                                           UserIdOf(c), now)
    /\ lastOp' = FlowRet("storageLoads", c, "none", TRUE)
    /\ UNCHANGED <<now, selfId, chatOf, queueVars, dbVars, lockVars, nodesLocal, edgesLocal,
                   draggingNodes, isReceiving, lastSyncedNodes, lastSyncedEdges,
                   posTimer, isInitialized, hookNodes, hookEdges>>

\* if (isFlowStorageLoaded && addNode && addEdge)
StorageGateOpen(c) == TRUE
StorageGate(c) == isStorageLoaded[c]

\* onConnect({source, target}): the edge goes to the store only
OnConnect(c, source, target) ==
    /\ HasKey(nodesLocal[c], source) /\ HasKey(nodesLocal[c], target)
    /\ source # target
    /\ IF StorageGate(c)
       THEN flowEdges' = addEdge(flowEdges, UiEdge(source \o "-" \o target, source, target),
                                chatOf[c], UserIdOf(c), now)
       ELSE UNCHANGED flowEdges
    /\ lastOp' = FlowRet("onConnect", c, source \o "-" \o target, TRUE)
    /\ UNCHANGED <<now, selfId, chatOf, queueVars, dbVars, lockVars, flowNodes, flowVars>>

\* onConnectEnd on the pane while connecting from connectingNodeId: a new
\* prompt node and its edge
OnConnectEnd(c, connectingNodeId, id, pos) ==
    /\ HasKey(nodesLocal[c], connectingNodeId)
    /\ ~HasKey(nodesLocal[c], id)
    /\ ~HasKey(flowNodes, id)
    /\ LET newNode == UiNode(id, "promptNode", pos, EmptyData)
           newEdge == UiEdge("edge-" \o connectingNodeId \o "-" \o id,
                             connectingNodeId, id)
       IN  /\ nodesLocal' = [nodesLocal EXCEPT ![c] = Append(@, newNode)]
           /\ edgesLocal' = [edgesLocal EXCEPT ![c] = Append(@, newEdge)]
           /\ IF StorageGate(c)
              THEN /\ flowNodes' = addNode(flowNodes, newNode, chatOf[c], now)
                   /\ flowEdges' = addEdge(flowEdges, newEdge, chatOf[c],
                                           UserIdOf(c), now)
              ELSE UNCHANGED storeVars
    /\ lastOp' = FlowRet("onConnectEnd", c, id, TRUE)
    /\ UNCHANGED <<now, selfId, chatOf, queueVars, dbVars, lockVars, isStorageLoaded, draggingNodes,
                   isReceiving, lastSyncedNodes, lastSyncedEdges, posTimer,
                   isInitialized, hookNodes, hookEdges>>

\* onCancel of the prompt node id dropped from parentId
OnCancel(c, parentId, id) ==
    /\ HasKey(nodesLocal[c], id)
    /\ Get(nodesLocal[c], id).type = "promptNode"
    /\ nodesLocal' = [nodesLocal EXCEPT ![c] = SelectSeq(@, LAMBDA n : n.id # id)]
    /\ edgesLocal' = [edgesLocal EXCEPT ![c] =
            SelectSeq(@, LAMBDA e : e.source # parentId \/ e.target # id)]
    /\ IF StorageGate(c)
       THEN /\ flowNodes' = deleteNodeNodes(flowNodes, id)
            /\ flowEdges' = deleteNodeEdges(flowEdges, id)
       ELSE UNCHANGED storeVars
    /\ lastOp' = FlowRet("onCancel", c, id, TRUE)
    /\ UNCHANGED <<now, selfId, chatOf, queueVars, dbVars, lockVars, isStorageLoaded, draggingNodes,
                   isReceiving, lastSyncedNodes, lastSyncedEdges, posTimer,
                   isInitialized, hookNodes, hookEdges>>

InitGate ==
    /\ now = 0
    /\ selfId = [c \in Clients |-> c]
    /\ nodeLocks = [n \in LockNodeIds |-> NoLock]
    /\ lockSnap = [c \in Clients |-> [n \in LockNodeIds |-> NoLock]]
    /\ lastOp = InitOp
    /\ QueueIdle /\ DbIdle
    /\ chatOf = [c \in Clients |-> "chatA"]
    /\ flowNodes = <<>>
    /\ flowEdges = <<>>
    /\ isStorageLoaded = [c \in Clients |-> FALSE]
    /\ nodesLocal = [c \in Clients |-> InitialNodes]
    /\ edgesLocal = [c \in Clients |-> InitialEdges]
    /\ draggingNodes = [c \in Clients |-> {}]
    /\ isReceiving = [c \in Clients |-> FALSE]
    /\ lastSyncedNodes = [c \in Clients |-> NotSynced]
    /\ lastSyncedEdges = [c \in Clients |-> NotSyncedEdges]
    /\ posTimer = [c \in Clients |-> NoTimer]
    /\ isInitialized = [c \in Clients |-> FALSE]
    /\ hookNodes = [c \in Clients |-> InitialNodes]
    /\ hookEdges = [c \in Clients |-> InitialEdges]

NextGate ==
    \/ \E c \in Clients : StorageLoads(c)
    \/ \E c \in Draggers, id \in GateNodeIds, pos \in DragPositions,
          dragging \in BOOLEAN : OnNodesChange(c, id, pos, dragging)
    \/ \E c \in Draggers, i \in 1..Len(InitialEdges) : OnEdgesChange(c, InitialEdges[i].id)
    \/ \E c \in Draggers : OnConnect(c, "conversation-m2", "conversation-m1")
    \/ \E c \in Draggers, id \in DroppedIds, pos \in DragPositions :
          OnConnectEnd(c, "conversation-m2", id, pos)
    \/ \E c \in Draggers, id \in DroppedIds : OnCancel(c, "conversation-m2", id)
    \/ \E c \in Draggers : PosTimerFires(c)

SpecGate == InitGate /\ [][NextGate]_vars

\* -------------------------------------------------------- NodeLockManager
\* a pending request; cb is the callback that came with it (0 when none), which
\* the manager itself files under <<nodeId, userId>> only
LockRequest(n, user, t, cb) ==
    [nodeId |-> n, userId |-> user, userName |-> user, timestamp |-> t, cb |-> cb]

\* requestLock grants at once when there is no lock, the lock has expired, or
\* the requester holds it
QueuesNever(user, currentLock) == FALSE
Queues(user, currentLock) ==
    /\ currentLock # NoLock
    /\ ~isLockExpired(currentLock, now)
    /\ currentLock.userId # user

\* requestLock(nodeId, userId, userName, currentLock, acquireLockFn, callback?);
\* granted is what acquireLockFn returns when it is called
RequestLock(n, user, currentLock, granted, withCallback) ==
    /\ withCallback => issued < MaxRequests
    /\ Len(lockRequests[n]) < MaxRequests
    /\ LET cb == IF withCallback THEN issued + 1 ELSE 0
       IN  /\ issued' = IF withCallback THEN issued + 1 ELSE issued
           /\ IF Queues(user, currentLock)
              THEN /\ lockRequests' = [lockRequests EXCEPT ![n] =
                                          Append(@, LockRequest(n, user, now, cb))]
                   /\ lockCallbacks' = IF withCallback
                                       THEN [lockCallbacks EXCEPT ![<<n, user>>] = cb]
                                       ELSE lockCallbacks
                   /\ acquireCalls' = 0
                   /\ UNCHANGED invoked
                   /\ lastOp' = [Op("requestLock", user, n, FALSE, NoEvents)
                                   EXCEPT !.before = [nodeLocks EXCEPT ![n] = currentLock]]
              ELSE /\ acquireCalls' = 1
                   /\ invoked' = IF withCallback
                                 THEN [invoked EXCEPT ![cb] = Append(@, granted)]
                                 ELSE invoked
                   /\ UNCHANGED <<lockRequests, lockCallbacks>>
                   /\ lastOp' = [Op("requestLock", user, n, granted, NoEvents)
                                   EXCEPT !.before = [nodeLocks EXCEPT ![n] = currentLock]]
    /\ UNCHANGED <<now, selfId, chatOf, dbVars, lockVars, storeVars, flowVars>>

\* processLockQueue(nodeId, acquireLockFn)
ProcessNewestFirst(requests) == Len(requests)
ProcessOldestFirst(requests) == 1
ProcessLockQueue(n, granted) ==
    /\ IF lockRequests[n] = <<>>
       THEN /\ acquireCalls' = 0
            /\ UNCHANGED <<lockRequests, lockCallbacks, invoked>>
            /\ lastOp' = Op("processLockQueue", "none", n, FALSE, NoEvents)
       ELSE LET k == ProcessOldestFirst(lockRequests[n])
                nextRequest == lockRequests[n][k]
                key == <<n, nextRequest.userId>>
                callback == lockCallbacks[key]
            IN  /\ lockRequests' = [lockRequests EXCEPT ![n] =
                        [i \in 1..(Len(@) - 1) |-> IF i < k THEN @[i] ELSE @[i + 1]]]
                /\ acquireCalls' = 1
                /\ invoked' = IF callback # 0
                              THEN [invoked EXCEPT ![callback] = Append(@, granted)]
                              ELSE invoked
                /\ lockCallbacks' = [lockCallbacks EXCEPT ![key] = 0]
                /\ lastOp' = [Op("processLockQueue", nextRequest.userId, n,
                                  granted, NoEvents)
                                 EXCEPT !.result = [NoNode EXCEPT
                                     !.id = nextRequest.userId,
                                     !.position = [x |-> nextRequest.timestamp,
                                                   y |-> nextRequest.cb]]]
    /\ UNCHANGED <<now, selfId, chatOf, issued, dbVars, lockVars, storeVars, flowVars>>

\* cancelLockRequest(nodeId, userId)
CancelLockRequest(n, user) ==
    /\ lockRequests' = [lockRequests EXCEPT ![n] =
                            SelectSeq(@, LAMBDA r : r.userId # user)]
    /\ lockCallbacks' = [lockCallbacks EXCEPT ![<<n, user>>] = 0]
    /\ acquireCalls' = 0
    /\ lastOp' = Op("cancelLockRequest", user, n, TRUE, NoEvents)
    /\ UNCHANGED <<now, selfId, chatOf, issued, invoked, dbVars, lockVars,
                   storeVars, flowVars>>

\* requests.forEach: the callback filed for the request's user, if any, is
\* called with false and removed
RECURSIVE RejectAll(_, _, _)
RejectAll(requests, callbacks, inv) ==
    IF requests = <<>> THEN [callbacks |-> callbacks, invoked |-> inv]
    ELSE LET key == <<Head(requests).nodeId, Head(requests).userId>>
             callback == callbacks[key]
         IN  IF callback = 0 THEN RejectAll(Tail(requests), callbacks, inv)
             ELSE RejectAll(Tail(requests), [callbacks EXCEPT ![key] = 0],
                            [inv EXCEPT ![callback] = Append(@, FALSE)])

\* clearNodeRequests(nodeId)
ClearNodeRequests(n) ==
    /\ LET done == RejectAll(lockRequests[n], lockCallbacks, invoked)
       IN  /\ lockCallbacks' = done.callbacks
           /\ invoked' = done.invoked
    /\ lockRequests' = [lockRequests EXCEPT ![n] = <<>>]
    /\ acquireCalls' = 0
    /\ lastOp' = Op("clearNodeRequests", "none", n, TRUE, NoEvents)
    /\ UNCHANGED <<now, selfId, chatOf, issued, dbVars, lockVars, storeVars, flowVars>>

\* cleanupExpiredRequests(maxAge), node by node
RequestExpired(r, maxAge) == now - r.timestamp >= maxAge
RECURSIVE RejectExpired(_, _, _, _)
RejectExpired(nodes, maxAge, callbacks, inv) ==
    IF nodes = {} THEN [callbacks |-> callbacks, invoked |-> inv]
    ELSE LET n == CHOOSE x \in nodes : TRUE
             done == RejectAll(SelectSeq(lockRequests[n],
                                         LAMBDA r : RequestExpired(r, maxAge)),
                               callbacks, inv)
         IN  RejectExpired(nodes \ {n}, maxAge, done.callbacks, done.invoked)
CleanupExpiredRequests(maxAge) ==
    /\ LET done == RejectExpired(LockNodeIds, maxAge, lockCallbacks, invoked)
       IN  /\ lockCallbacks' = done.callbacks
           /\ invoked' = done.invoked
    /\ lockRequests' = [n \in LockNodeIds |->
            SelectSeq(lockRequests[n], LAMBDA r : ~RequestExpired(r, maxAge))]
    /\ acquireCalls' = 0
    /\ lastOp' = Op("cleanupExpiredRequests", "none", "none", TRUE, NoEvents)
    /\ UNCHANGED <<now, selfId, chatOf, issued, dbVars, lockVars, storeVars, flowVars>>

\* the locks a caller may pass as currentLock: none, a fresh one, an expired one
LockInputs(n) ==
    {NoLock} \cup {NewLock(c, n, now) : c \in Clients}
             \cup {[NewLock(c, n, now) EXCEPT !.expiresAt = now - 1] : c \in Clients}
MaxAges == {TickMs, LOCK_TIMEOUT_MS}

NextQueue ==
    \/ \E n \in LockNodeIds, c \in Clients, granted \in BOOLEAN, withCallback \in BOOLEAN :
          \E currentLock \in LockInputs(n) :
            RequestLock(n, UserIdOf(c), currentLock, granted, withCallback)
    \/ \E n \in LockNodeIds, granted \in BOOLEAN : ProcessLockQueue(n, granted)
    \/ \E n \in LockNodeIds, c \in Clients : CancelLockRequest(n, UserIdOf(c))
    \/ \E n \in LockNodeIds : ClearNodeRequests(n)
    \/ \E maxAge \in MaxAges : CleanupExpiredRequests(maxAge)
    \/ StoreTick

SpecQueue == InitStore /\ [][NextQueue]_vars

\* ---------------------------------------------------- database: flow rows
DbNodeRow(node, chat) ==
    [id |-> node.id, chatId |-> chat, type |-> node.type,
     positionX |-> node.positionX, positionY |-> node.positionY, data |-> node.data]
\* edge.type || 'smoothstep'
DbEdgeRow(edge, chat) ==
    [id |-> edge.id, chatId |-> chat, source |-> edge.source, target |-> edge.target,
     type |-> IF edge.type = "" THEN "smoothstep" ELSE edge.type,
     animated |-> edge.animated, style |-> edge.style]

\* onConflictDoUpdate({ target: id, set: { ... } }): the columns a row that is
\* already present takes; the set clause is built from values[0]
NodeConflictSet(values, i) == values[1]
EdgeConflictSet(values, i) == values[1]

\* insert(...).values(values).onConflictDoUpdate(...), row by row
RECURSIVE InsertNodes(_, _, _)
InsertNodes(table, values, i) ==
    IF i > Len(values) THEN table
    ELSE LET v == values[i]
             from == NodeConflictSet(values, i)
             row == IF HasKey(table, v.id)
                    THEN [Get(table, v.id) EXCEPT !.positionX = from.positionX,
                                                  !.positionY = from.positionY,
                                                  !.data = from.data]
                    ELSE v
         IN  InsertNodes(MapSet(table, row), values, i + 1)
RECURSIVE InsertEdges(_, _, _)
InsertEdges(table, values, i) ==
    IF i > Len(values) THEN table
    ELSE LET v == values[i]
             from == EdgeConflictSet(values, i)
             row == IF HasKey(table, v.id)
                    THEN [Get(table, v.id) EXCEPT !.source = from.source,
                                                  !.target = from.target,
                                                  !.type = from.type,
                                                  !.animated = from.animated,
                                                  !.style = from.style]
                    ELSE v
         IN  InsertEdges(MapSet(table, row), values, i + 1)

saveFlowNodes(table, nodes, chat) ==
    IF nodes = <<>> THEN table
    ELSE InsertNodes(table, [i \in 1..Len(nodes) |-> DbNodeRow(nodes[i], chat)], 1)
saveFlowEdges(table, edges, chat) ==
    IF edges = <<>> THEN table
    ELSE InsertEdges(table, [i \in 1..Len(edges) |-> DbEdgeRow(edges[i], chat)], 1)

SaveFlowNodes(nodes, chat) ==
    /\ dbFlowNodes' = saveFlowNodes(dbFlowNodes, nodes, chat)
    /\ lastOp' = [Op("saveFlowNodes", "none", "none", TRUE, NoEvents) EXCEPT !.arg = nodes]
    /\ UNCHANGED <<now, selfId, chatOf, dbFlowEdges, queueVars, lockVars, storeVars,
                   flowVars>>
SaveFlowEdges(edges, chat) ==
    /\ dbFlowEdges' = saveFlowEdges(dbFlowEdges, edges, chat)
    /\ lastOp' = [Op("saveFlowEdges", "none", "none", TRUE, NoEvents) EXCEPT !.arg = edges]
    /\ UNCHANGED <<now, selfId, chatOf, dbFlowNodes, queueVars, lockVars, storeVars,
                   flowVars>>

\* batches of at most MaxBatch rows with distinct ids (one statement cannot
\* touch the same row twice)
MaxBatch == 2
DbNodeIds == {"n3", "n4"}
DbEdgeIds == {"e1", "e2"}
DbNodeInputs ==
    [id : DbNodeIds, type : {"answerNode"}, positionX : {"0", "50"}, positionY : {"0"},
     data : {"d1", "d2"}]
DbEdgeInputs ==
    [id : DbEdgeIds, source : {"n3", "n4"}, target : {"n5"}, type : {"", "step"},
     animated : {FALSE}, style : {"none"}]
Batches(rows) ==
    {b \in UNION {[1..k -> rows] : k \in 0..MaxBatch} :
        \A i, j \in 1..Len(b) : i # j => b[i].id # b[j].id}

NextDb ==
    \/ \E nodes \in Batches(DbNodeInputs) : SaveFlowNodes(nodes, "chatA")
    \/ \E edges \in Batches(DbEdgeInputs) : SaveFlowEdges(edges, "chatA")

SpecDb == InitStore /\ [][NextDb]_vars

\* ------------------------------------------------- hook: two chats, one store
NextPart ==
    \/ \E c \in Clients, node \in HookNodeInputs : StoreAddNode(c, node)
    \/ \E c \in Authors, edge \in HookEdgeInputs : StoreAddEdge(c, edge)
    \/ \E c \in Clients, id \in HookNodeIds : StoreDeleteNode(c, id)
    \/ \E c \in Authors : StoreUpdateNodePosition(c, "n3", Pos(50, 50))
    \/ \E c \in Draggers : SyncNodes(c)
    \/ \E c \in Draggers : SyncEdges(c)

SpecPart == InitHook /\ [][NextPart]_vars

\* ------------------------------------- ChatFlow: merging onto answer nodes
\* the author restores a saved answer node into the store and rewrites its
\* data and type; the other client's canvas holds the node and merges
MergeNodeInputs == {UiNode("p1", "answerNode", Pos(700, 300), AnswerData)}
RemoteData == [userMessage |-> "m2", assistantMessage |-> "none",
               isLoading |-> "true", aux |-> "remote"]
MergeDataInputs == {RemoteData, EmptyData}
MergeTypeInputs == {"", "default", "promptNode"}

NextMerge ==
    \/ \E c \in Draggers : InitializeFlow(c)
    \/ \E c \in Authors, node \in MergeNodeInputs : StoreAddNode(c, node)
    \/ \E c \in Authors, id \in FollowUpIds, newData \in MergeDataInputs,
          newType \in MergeTypeInputs :
            StoreUpdateNodeData(c, id, newData, newType, NoPosition)
    \/ \E c \in Draggers : DeliverNodes(c)
    \/ \E c \in Draggers : LockEvent(c)
    \/ \E c \in Draggers : ResetReceiving(c)
    \/ \E c \in Draggers, id \in FollowUpIds, pos \in DragPositions,
          dragging \in BOOLEAN : OnNodesChange(c, id, pos, dragging)
    \/ \E c \in Draggers : PosTimerFires(c)

SpecMerge == InitEcho /\ [][NextMerge]_vars

\* ------------------------------------------------------------- flow spec
InitFlow ==
    /\ now = 0
    /\ selfId = [c \in Clients |-> c]
    /\ nodeLocks = [n \in LockNodeIds |-> NoLock]
    /\ lockSnap = [c \in Clients |-> [n \in LockNodeIds |-> NoLock]]
    /\ lastOp = InitOp
    /\ QueueIdle /\ DbIdle
    /\ chatOf = [c \in Clients |-> "chatA"]
    /\ flowNodes = <<>>
    /\ flowEdges = <<>>
    /\ FlowIdle

NextFlow ==
    \/ \E c \in Clients : InitializeFlow(c)
    \/ \E c \in Clients : DeliverNodes(c)
    \/ \E c \in Clients : DeliverEdges(c)
    \/ \E c \in Clients : LockEvent(c)
    \/ \E c \in Clients : ResetReceiving(c)
    \/ \E c \in Draggers, id \in FollowUpIds, pos \in DragPositions : DragMove(c, id, pos)
    \/ \E c \in Draggers, id \in FollowUpIds : DragEnd(c, id)
    \/ \E c \in Clients : PosTimerFires(c)
    \/ \E c \in Clients : TransformToAnswer(c)
    \/ \E c \in Clients, id \in FlowNodeIds : AssistantArrives(c, id)
    \/ \E c \in Authors, parentId \in FlowNodeIds, id \in FollowUpIds :
          AddFollowUp(c, parentId, id)
    \/ \E c \in Authors, parentId \in FlowNodeIds, id \in FollowUpIds :
          CancelPrompt(c, parentId, id)

SpecFlow == InitFlow /\ [][NextFlow]_vars

\* ------------------------------------------------------------ lock claims
HeldByOther(lock, c) ==
    lock # NoLock /\ ~isLockExpired(lock, now) /\ lock.userId # UserIdOf(c)

\* C1: while the store holds an unexpired lock on n of another user, acquireLock(n)
\* returns false, leaves the lock record unchanged and broadcasts nothing; an
\* acquireLock that returns true found no lock, an expired lock or the caller's
\* own lock, and an unexpired lock leaves the map only by its holder's releaseLock.
C1_AcquireResult ==
    lastOp.op = "acquireLock" =>
        LET c == lastOp.client
            n == lastOp.node
            found == lastOp.before[n]
        IN  /\ HeldByOther(found, c) =>
                   /\ lastOp.ret = FALSE
                   /\ nodeLocks = lastOp.before
                   /\ lastOp.events = NoEvents
            /\ lastOp.ret = TRUE =>
                   \/ found = NoLock
                   \/ isLockExpired(found, now)
                   \/ found.userId = UserIdOf(c)

C1_HolderKeepsLock ==
    \A n \in LockNodeIds :
        (/\ nodeLocks[n] # NoLock
         /\ ~isLockExpired(nodeLocks[n], now)
         /\ nodeLocks'[n].userId # nodeLocks[n].userId)
        => /\ lastOp'.op = "releaseLock"
           /\ lastOp'.node = n
           /\ UserIdOf(lastOp'.client) = nodeLocks[n].userId

C1_MutualExclusion == [](C1_AcquireResult) /\ [][C1_HolderKeepsLock]_vars

C1_Witness ==
    /\ lastOp.op = "acquireLock"
    /\ lastOp.ret = FALSE
    /\ HeldByOther(nodeLocks[lastOp.node], lastOp.client)
    /\ now > 0

\* C2: for every node at most one client has hasLock(n) = true.
C2_AtMostOneHolder ==
    \A n \in LockNodeIds : Cardinality({c \in Clients : hasLock(c, n)}) <= 1

\* C3: a lock whose expiresAt is earlier than now is absent for getNodeLock of
\* every client, and acquireLock by any user then returns true and installs the
\* caller's lock with expiresAt = now + 5 minutes; a lock taken at t=0 refuses
\* another user at t=1min and yields to it at t=6min.
C3_ExpiredIsAbsent ==
    /\ \A n \in LockNodeIds, c \in Clients :
           (nodeLocks[n] # NoLock /\ nodeLocks[n].expiresAt < now)
               => getNodeLock(c, n) = NoLock
    /\ lastOp.op = "acquireLock" =>
           LET c == lastOp.client
               n == lastOp.node
               found == lastOp.before[n]
           IN  /\ (found # NoLock /\ found.expiresAt < now) =>
                      /\ lastOp.ret = TRUE
                      /\ nodeLocks[n].userId = UserIdOf(c)
                      /\ nodeLocks[n].lockedAt = now
                      /\ nodeLocks[n].expiresAt = now + 300000
               /\ (found # NoLock /\ found.lockedAt = 0 /\ found.expiresAt = 300000
                     /\ found.userId # UserIdOf(c)) =>
                      /\ now = 60000 => lastOp.ret = FALSE
                      /\ now = 360000 => lastOp.ret = TRUE

C3_Witness ==
    /\ lastOp.op = "acquireLock"
    /\ lastOp.ret = TRUE
    /\ now = 360000
    /\ lastOp.before[lastOp.node] # NoLock
    /\ lastOp.before[lastOp.node].lockedAt = 0
    /\ lastOp.before[lastOp.node].userId # UserIdOf(lastOp.client)
    /\ \E c \in Clients : lockSnap[c][lastOp.node] = lastOp.before[lastOp.node]

\* C10: renewLock by the holder returns true and sets expiresAt to now + the
\* timeout, holder and lockedAt unchanged; with no lock or another holder it
\* returns false and the lock map is unchanged.
C10_Renew ==
    lastOp.op = "renewLock" =>
        LET c == lastOp.client
            n == lastOp.node
            found == lastOp.before[n]
        IN  IF found # NoLock /\ found.userId = UserIdOf(c)
            THEN /\ lastOp.ret = TRUE
                 /\ nodeLocks = [lastOp.before EXCEPT
                                   ![n].expiresAt = now + LOCK_TIMEOUT_MS]
                 /\ nodeLocks[n].userId = found.userId
                 /\ nodeLocks[n].lockedAt = found.lockedAt
            ELSE /\ lastOp.ret = FALSE
                 /\ nodeLocks = lastOp.before

C10_Witness ==
    /\ lastOp.op = "renewLock"
    /\ lastOp.ret = TRUE
    /\ nodeLocks[lastOp.node].expiresAt > lastOp.before[lastOp.node].expiresAt
    /\ nodeLocks[lastOp.node].lockedAt < now

\* exploration aids
DistinctIdsOnly == (\A c \in Clients : selfId[c] # NoSelf) => C2_AtMostOneHolder

\* ----------------------------------------------------------- store claims
Records(m) == {m[i] : i \in 1..Len(m)}

\* C6: deleteNode(N) removes, in one mutation, the node record N and exactly
\* the edges whose source or target is N; every other node record and every
\* other edge is unchanged (with e1:n3->n4, e2:n5->n3, e6:n4->n5, deleteNode(n3)
\* removes n3, e1, e2 and leaves e6).
C6_DeleteStep ==
    lastOp'.op = "deleteNode" =>
        LET N == lastOp'.node
        IN  /\ Records(flowNodes') = {r \in Records(flowNodes) : r.id # N}
            /\ Records(flowEdges') =
                   {e \in Records(flowEdges) : e.source # N /\ e.target # N}
            /\ Len(flowNodes') = Cardinality(Records(flowNodes'))
            /\ Len(flowEdges') = Cardinality(Records(flowEdges'))
            /\ (N = "n3" /\ {"e1", "e2", "e6"} \subseteq Keys(flowEdges)) =>
                   Keys(flowEdges') = Keys(flowEdges) \ {"e1", "e2"}

C6_CascadeDelete == [][C6_DeleteStep]_vars

C6_Witness ==
    /\ lastOp.op = "deleteNode"
    /\ lastOp.node = "n3"
    /\ lastOp.deleted = {"e1", "e2"}
    /\ Keys(flowEdges) = {"e6"}
    /\ Keys(flowNodes) = {"n4", "n5"}

\* C7: addNode is a create, not an upsert: when the node map already has a
\* record with node.id the map is unchanged, whatever the second call carries;
\* otherwise one record is appended; after addNode exactly one record has the id.
C7_AddStep ==
    lastOp'.op = "addNode" =>
        LET node == lastOp'.arg
        IN  /\ (\E r \in Records(flowNodes) : r.id = node.id) =>
                   flowNodes' = flowNodes
            /\ ~(\E r \in Records(flowNodes) : r.id = node.id) =>
                   /\ Len(flowNodes') = Len(flowNodes) + 1
                   /\ flowNodes'[Len(flowNodes')].position = node.position
                   /\ flowNodes'[Len(flowNodes')].data = node.data
                   /\ flowNodes'[Len(flowNodes')].createdAt = now
                   /\ flowNodes'[Len(flowNodes')].chatId = chatOf[lastOp'.client]
            /\ Cardinality({i \in 1..Len(flowNodes') : flowNodes'[i].id = node.id}) = 1

C7_IdempotentAdd == [][C7_AddStep]_vars

C7_Witness ==
    /\ lastOp.op = "addNode"
    /\ \E r \in Records(flowNodes) :
          /\ r.id = lastOp.arg.id
          /\ r.type # lastOp.arg.type
          /\ r.position # lastOp.arg.position
          /\ r.createdAt < now


\* C11: releaseLock deletes the lock and broadcasts node-unlocked exactly when the
\* stored lock's holder is the caller; with no lock, or another user's lock, the
\* lock map is unchanged and nothing is broadcast
C11_Release ==
    lastOp.op = "releaseLock" =>
        LET n == lastOp.node
            u == UserIdOf(lastOp.client)
            found == lastOp.before[n]
        IN  IF found # NoLock /\ found.userId = u
            THEN /\ nodeLocks = [lastOp.before EXCEPT ![n] = NoLock]
                 /\ lastOp.events = {[type |-> "node-unlocked", nodeId |-> n,
                                      userId |-> u]}
            ELSE /\ nodeLocks = lastOp.before
                 /\ lastOp.events = NoEvents
\* a release attempted on a lock another user holds
C11_Witness ==
    /\ lastOp.op = "releaseLock"
    /\ lastOp.before[lastOp.node] # NoLock
    /\ lastOp.before[lastOp.node].userId # UserIdOf(lastOp.client)
    /\ nodeLocks[lastOp.node] = lastOp.before[lastOp.node]

\* C12: addEdge on a present id changes nothing and broadcasts nothing; on a new
\* id it inserts one record stamped with the caller's chat and user and
\* broadcasts one edge-added event with the edge id, the chat and the user
C12_AddEdgeStep ==
    lastOp'.op = "addEdge" =>
        LET e == lastOp'.edge
            chat == chatOf[lastOp'.client]
            u == UserIdOf(lastOp'.client)
        IN  IF HasKey(flowEdges, e.id)
            THEN flowEdges' = flowEdges /\ lastOp'.events = NoEvents
            ELSE /\ flowEdges' = Append(flowEdges,
                        [id |-> e.id, source |-> e.source, target |-> e.target,
                         chatId |-> chat, createdAt |-> now, creatorId |-> u])
                 /\ lastOp'.events = {[type |-> "edge-added", edgeId |-> e.id,
                                       chatId |-> chat, userId |-> u]}
C13_UpdateStep ==
    lastOp'.op = "updateNodeData" =>
        LET a == lastOp'.arg
            chat == chatOf[lastOp'.client]
        IN  IF ~HasKey(flowNodes, a.id)
            THEN IF a.position = NoPosition
                 THEN flowNodes' = flowNodes
                 ELSE /\ Len(flowNodes') = Len(flowNodes) + 1
                      /\ SubSeq(flowNodes', 1, Len(flowNodes)) = flowNodes
                      /\ LET r == flowNodes'[Len(flowNodes')]
                         IN  /\ r.id = a.id /\ r.position = a.position
                             /\ r.data = a.data /\ r.chatId = chat
                             /\ a.type # "" => r.type = a.type
            ELSE IF Get(flowNodes, a.id).chatId # chat
            THEN flowNodes' = flowNodes
            ELSE /\ Len(flowNodes') = Len(flowNodes)
                 /\ \A i \in 1..Len(flowNodes) :
                       LET old == flowNodes[i]
                           r == flowNodes'[i]
                       IN  IF old.id # a.id THEN r = old
                           ELSE /\ r.id = old.id /\ r.position = old.position
                                /\ r.chatId = old.chatId
                                /\ r.createdAt = old.createdAt
                                /\ r.data = a.data
                                /\ r.type = IF a.type = "" THEN old.type ELSE a.type
C13_Upsert == [][C13_UpdateStep]_vars
\* an absent node was inserted by updateNodeData at the supplied position
C13_Witness ==
    /\ lastOp.op = "updateNodeData"
    /\ lastOp.events # NoEvents
    /\ \E e \in lastOp.events : e.type = "node-added"
    /\ HasKey(flowNodes, lastOp.arg.id)
    /\ Get(flowNodes, lastOp.arg.id).position = lastOp.arg.position
    /\ Get(flowNodes, lastOp.arg.id).data = AnswerData

\* C14: no operation of the command surface propagates an exception to its
\* caller when the store is not ready or a store access fails; the call is
\* dropped and the store and the lock map stay as they were
C14_NothingThrows ==
    lastOp.op \in CommandSurface =>
        /\ ~lastOp.threw
        /\ (~lastOp.ret /\ lastOp.events = NoEvents) => nodeLocks = lastOp.before

Remote(c) == HookNodes(c)
\* the step ran the merge of handleNodesChangeFromLiveblocks on client c
Reconciled(c) ==
    /\ lastOp.op \in {"deliverNodes", "lockEvent"}
    /\ lastOp.client = c
    /\ lastOp.ret
ReconcileStep(c) == Reconciled(c)' /\ isReceiving'[c]

\* C4 (part): a reconciliation whose snapshot says promptNode for a node that is
\* locally an answerNode leaves that local node exactly as it was
C4_ReconcileKeeps ==
    \A c \in Clients, id \in FlowNodeIds :
        ( /\ ReconcileStep(c)
          /\ HasKey(nodesLocal[c], id)
          /\ Get(nodesLocal[c], id).type = "answerNode"
          /\ HasKey(Remote(c)', id)
          /\ Get(Remote(c)', id).type = "promptNode" )
        => /\ HasKey(nodesLocal'[c], id)
           /\ Get(nodesLocal'[c], id) = Get(nodesLocal[c], id)
\* C4 (part): no step turns a local answerNode into another type
C4_TypeStays ==
    \A c \in Clients, id \in FlowNodeIds :
        ( /\ HasKey(nodesLocal[c], id)
          /\ Get(nodesLocal[c], id).type = "answerNode"
          /\ HasKey(nodesLocal'[c], id) )
        => Get(nodesLocal'[c], id).type = "answerNode"
\* C4: no type regression: once a node is locally an answerNode, reconciling a
\* snapshot that says promptNode for it changes neither its type nor its data
C4_NoTypeRegression == [][C4_ReconcileKeeps /\ C4_TypeStays]_vars
\* an answer with its assistant message survived a snapshot that says promptNode
\* at another position
C4_Witness ==
    \E c \in Clients, id \in FlowNodeIds :
        /\ Reconciled(c) /\ isReceiving[c]
        /\ HasKey(nodesLocal[c], id) /\ HasKey(Remote(c), id)
        /\ Get(nodesLocal[c], id).type = "answerNode"
        /\ Get(nodesLocal[c], id).data.assistantMessage = AssistantMessage
        /\ Get(Remote(c), id).type = "promptNode"
        /\ Get(Remote(c), id).position # Get(nodesLocal[c], id).position

\* C5 (part): a node being dragged is kept verbatim by a reconciliation
C5_DraggedKept ==
    \A c \in Clients, id \in FlowNodeIds :
        (ReconcileStep(c) /\ id \in draggingNodes[c] /\ HasKey(nodesLocal[c], id))
        => /\ HasKey(nodesLocal'[c], id)
           /\ Get(nodesLocal'[c], id) = Get(nodesLocal[c], id)
\* C5 (part, as stated): a node not being dragged has the snapshot's position
\* after a reconciliation
C5_AdoptsRemote ==
    \A c \in Clients, id \in FlowNodeIds :
        ( /\ ReconcileStep(c)
          /\ id \notin draggingNodes[c]
          /\ HasKey(nodesLocal[c], id)
          /\ HasKey(Remote(c)', id) )
        => Get(nodesLocal'[c], id).position = Get(Remote(c)', id).position
\* C5 (part, amended): ... unless it is locally an answerNode and the snapshot
\* says promptNode
C5_AdoptsRemoteUnlessGuarded ==
    \A c \in Clients, id \in FlowNodeIds :
        ( /\ ReconcileStep(c)
          /\ id \notin draggingNodes[c]
          /\ HasKey(nodesLocal[c], id)
          /\ HasKey(Remote(c)', id)
          /\ ~DemotionGuard(Get(nodesLocal[c], id), Get(Remote(c)', id)) )
        => Get(nodesLocal'[c], id).position = Get(Remote(c)', id).position
Occurrences(list, id) == Cardinality({i \in 1..Len(list) : list[i].id = id})
\* C8 (part): after a reconciliation every node of the snapshot is in the local
\* list exactly once, and no local list ever holds an id twice
C8_ExactlyOnce ==
    /\ \A c \in Clients :
          Reconciled(c) =>
              \A i \in 1..Len(Remote(c)) :
                  Occurrences(nodesLocal[c], Remote(c)[i].id) = 1
    /\ \A c \in Clients, id \in FlowNodeIds : Occurrences(nodesLocal[c], id) <= 1
\* C8 (part): the merged list is the local list, node for node, followed by the
\* snapshot's nodes that had no local counterpart
C8_AppendStep ==
    \A c \in Clients :
        ReconcileStep(c) =>
            LET new == SelectSeq(Remote(c)', LAMBDA n : ~HasKey(nodesLocal[c], n.id))
            IN  /\ Len(nodesLocal'[c]) = Len(nodesLocal[c]) + Len(new)
                /\ \A i \in 1..Len(nodesLocal[c]) :
                      nodesLocal'[c][i].id = nodesLocal[c][i].id
                /\ \A j \in 1..Len(new) :
                      nodesLocal'[c][Len(nodesLocal[c]) + j] = new[j]
\* C8: an added node reaches the other client's list exactly once: a snapshot
\* node with no local counterpart is appended once, and reconciling the same
\* snapshot again adds no second copy
C8_AddPropagates == [](C8_ExactlyOnce) /\ [][C8_AppendStep]_vars
\* client c2 started on the empty chat, c1 added p1, and c2's reconciliation of
\* the delivered snapshot gave it the one p1 after its own initial node
C8_Witness ==
    /\ Reconciled("c2")
    /\ lastOp.op = "deliverNodes"
    /\ Ids(nodesLocal["c2"]) = <<"prompt-initial", "p1">>
    /\ Ids(Remote("c2")) = <<"p1">>

\* nothing is pending on any client: no drag, no debounced write, every store
\* change delivered and reconciled
Quiescent ==
    \A c \in Clients :
        /\ isInitialized[c]
        /\ draggingNodes[c] = {}
        /\ posTimer[c] = NoTimer
        /\ ~isReceiving[c]
        /\ lastSyncedNodes[c] = StoreNodesOf(c)
        /\ ~EdgesChanged(c)
\* C9: convergence: once nothing is pending, a follow-up node (or an edge) a
\* client still shows is in the store, so a node deleted from the store has
\* disappeared from every client
C9_Converges ==
    Quiescent =>
        \A c \in Clients :
            /\ \A id \in FollowUpIds :
                  HasKey(nodesLocal[c], id) => HasKey(StoreNodesOf(c), id)
            /\ Keys(edgesLocal[c]) = Keys(StoreEdgesOf(c))

\* C16 (step): when a drag ends, the store holds the node's final position
C16_DragEndStep ==
    \A c \in Clients, id \in FlowNodeIds :
        ( /\ id \in draggingNodes[c]
          /\ id \notin draggingNodes'[c]
          /\ HasKey(nodesLocal[c], id)
          /\ HasKey(flowNodes', id)
          /\ Get(flowNodes', id).chatId = chatOf[c] )
        => Get(flowNodes', id).position = Get(nodesLocal[c], id).position
\* C16: on drag end the node leaves draggingNodes and its final position is
\* written to the store directly, without waiting for the debounce timer
C16_DragEndFlushes == [][C16_DragEndStep]_vars

\* C17 (step): a merge that changes a local list sets the flag, and a change
\* callback that runs while the flag is set writes nothing: store, pending
\* position write, drag set and the hook's cached edges stay as they were
C17_NoWriteBack ==
    \A c \in Clients :
        /\ ( /\ lastOp'.op \in {"deliverNodes", "lockEvent", "deliverEdges"}
             /\ lastOp'.client = c
             /\ <<nodesLocal[c], edgesLocal[c]>> # <<nodesLocal'[c], edgesLocal'[c]>> )
           => isReceiving'[c]
        /\ ( /\ isReceiving[c]
             /\ lastOp'.op \in {"onNodesChange", "onEdgesChange"}
             /\ lastOp'.client = c )
           => /\ flowNodes' = flowNodes /\ flowEdges' = flowEdges
              /\ posTimer' = posTimer /\ draggingNodes' = draggingNodes
              /\ hookEdges' = hookEdges
\* C17: echo suppression: the flag is set by a merge and is false again after
\* the microtask; while it is set a change callback updates local state only
C17_EchoSuppression ==
    /\ [][C17_NoWriteBack]_vars
    /\ \A c \in Clients : isReceiving[c] ~> ~isReceiving[c]
\* an edge removal arrived while the flag was set: gone locally, still stored
C17_Witness ==
    \E c \in Clients :
        /\ isReceiving[c]
        /\ lastOp.op = "onEdgesChange" /\ lastOp.client = c
        /\ ~HasKey(edgesLocal[c], lastOp.node)
        /\ HasKey(flowEdges, lastOp.node)
        /\ HasKey(hookEdges[c], lastOp.node)

\* C18 (nodes): a node snapshot that is empty while the local list is not, or
\* shorter than the local list, leaves the local list and the flag as they were
C18_NodeSkip ==
    \A c \in Clients :
        ( /\ lastSyncedNodes'[c] # lastSyncedNodes[c]
          /\ lastOp'.op \in {"deliverNodes", "skipped"}
          /\ \/ Len(lastSyncedNodes'[c]) = 0 /\ Len(nodesLocal[c]) > 0
             \/ Len(nodesLocal[c]) > Len(lastSyncedNodes'[c]) )
        => /\ nodesLocal'[c] = nodesLocal[c]
           /\ isReceiving'[c] = isReceiving[c]
\* C18 (edges): an edge snapshot shorter than the local list changes nothing;
\* otherwise every local edge the snapshot has takes the snapshot's version, the
\* others stay, and the snapshot's other edges follow
C18_EdgeMerge ==
    \A c \in Clients :
        ( /\ <<lastSyncedEdges'[c], hookEdges'[c]>> # <<lastSyncedEdges[c], hookEdges[c]>>
          /\ lastOp'.op \in {"deliverEdges", "skipped"} )
        => LET remote == hookEdges'[c]
               local == edgesLocal[c]
           IN  IF Len(local) > Len(remote)
               THEN /\ edgesLocal'[c] = local
                    /\ isReceiving'[c] = isReceiving[c]
               ELSE /\ isReceiving'[c]
                    /\ Len(edgesLocal'[c]) >= Len(local)
                    /\ \A i \in 1..Len(local) :
                          edgesLocal'[c][i] = IF HasKey(remote, local[i].id)
                                              THEN Get(remote, local[i].id)
                                              ELSE local[i]
                    /\ \A j \in 1..Len(remote) : HasKey(edgesLocal'[c], remote[j].id)
Payload(node) ==
    <<node.data.userMessage, node.data.assistantMessage, node.data.isLoading>>
\* C19 (step): a merge of a local answer node that is not dragged with a
\* snapshot node of another type than promptNode gives an answer node with the
\* local message payload, the snapshot's position and the snapshot's other
\* data; no merge changes the message payload of a local answer node
C19_MergeStep ==
    \A c \in Clients, id \in FlowNodeIds :
        ( /\ ReconcileStep(c)
          /\ HasKey(nodesLocal[c], id)
          /\ Get(nodesLocal[c], id).type = "answerNode" )
        => /\ HasKey(nodesLocal'[c], id)
           /\ Payload(Get(nodesLocal'[c], id)) = Payload(Get(nodesLocal[c], id))
           /\ ( /\ id \notin draggingNodes[c]
                /\ HasKey(Remote(c)', id)
                /\ Get(Remote(c)', id).type # "promptNode" )
              => LET merged == Get(nodesLocal'[c], id)
                     newNode == Get(Remote(c)', id)
                 IN  /\ merged.type = "answerNode"
                     /\ merged.position = newNode.position
                     /\ newNode.data.aux # "none"
                          => merged.data.aux = newNode.data.aux
\* C19: the answer-node merge keeps the local message payload
C19_AnswerMerge == [][C19_MergeStep]_vars
\* a merge met a snapshot node of type 'default' with another payload and
\* another position than the local answer node had; the payload is the local one
C19_Witness ==
    \E c \in Clients :
        /\ Reconciled(c) /\ isReceiving[c]
        /\ HasKey(nodesLocal[c], "p1") /\ HasKey(Remote(c), "p1")
        /\ Get(nodesLocal[c], "p1").type = "answerNode"
        /\ Get(Remote(c), "p1").type = "default"
        /\ Payload(Get(Remote(c), "p1")) # Payload(Get(nodesLocal[c], "p1"))
        /\ Get(nodesLocal[c], "p1").data.aux = "remote"
        /\ Get(nodesLocal[c], "p1").position = Get(Remote(c), "p1").position

\* the locks a sweep found expired: those with expiresAt earlier than its time
ExpiredBefore ==
    {n \in LockNodeIds : lastOp.before[n] # NoLock /\ lastOp.before[n].expiresAt < now}
\* C20: a sweep deletes exactly the locks whose expiresAt is earlier than its
\* time and broadcasts one node-unlocked per deleted lock with the former
\* holder's userId; the other locks stay, and no expired lock remains
C20_Sweep ==
    lastOp.op = "cleanupExpiredLocks"
    => /\ \A n \in LockNodeIds :
             nodeLocks[n] = IF n \in ExpiredBefore THEN NoLock ELSE lastOp.before[n]
       /\ lastOp.events = {[type |-> "node-unlocked", nodeId |-> n,
                            userId |-> lastOp.before[n].userId] : n \in ExpiredBefore}
       /\ Cardinality(lastOp.events) = Cardinality(ExpiredBefore)
       /\ \A n \in LockNodeIds :
             nodeLocks[n] # NoLock => ~(nodeLocks[n].expiresAt < now)
\* a sweep deleted an expired lock
C20_Witness ==
    /\ lastOp.op = "cleanupExpiredLocks"
    /\ ExpiredBefore # {}
    /\ \A n \in ExpiredBefore : nodeLocks[n] = NoLock

\* C21 (nodes): updateNodes writes every node of the changed cached list under
\* the caller's chat, keeping createdAt of a present record, deletes exactly the
\* chat's records absent from that list, and makes that list the cache
C21_UpdateNodesStep ==
    lastOp'.op = "updateNodes"
    => LET c == lastOp'.client
           result == applyNodeChange(hookNodes[c],
                                     Change(lastOp'.arg.type, lastOp'.node))
           gone == {flowNodes[i].id : i \in {k \in 1..Len(flowNodes) :
                        /\ flowNodes[k].chatId = chatOf[c]
                        /\ ~HasKey(result, flowNodes[k].id)}}
       IN  /\ hookNodes'[c] = result
           /\ \A i \in 1..Len(result) :
                 /\ HasKey(flowNodes', result[i].id)
                 /\ LET r == Get(flowNodes', result[i].id)
                    IN  /\ ToUiNode(r) = [result[i] EXCEPT !.type = TypeOrDefault(@)]
                        /\ r.chatId = chatOf[c]
                        /\ r.createdAt = IF HasKey(flowNodes, r.id)
                                         THEN Get(flowNodes, r.id).createdAt ELSE now
           /\ Keys(flowNodes) \ Keys(flowNodes') = gone
           /\ \A i \in 1..Len(flowNodes) :
                 (flowNodes[i].id \notin gone /\ ~HasKey(result, flowNodes[i].id))
                 => /\ HasKey(flowNodes', flowNodes[i].id)
                    /\ Get(flowNodes', flowNodes[i].id) = flowNodes[i]
           /\ Keys(flowNodes') \subseteq Keys(flowNodes) \cup Keys(result)
\* C21 (edges): updateEdges does the same for edges; an edge whose record
\* belongs to another chat is not written
C21_UpdateEdgesStep ==
    lastOp'.op = "updateEdges"
    => LET c == lastOp'.client
           result == applyEdgeChange(hookEdges[c],
                                     Change(lastOp'.edge.source, lastOp'.edge.id))
           gone == {flowEdges[i].id : i \in {k \in 1..Len(flowEdges) :
                        /\ flowEdges[k].chatId = chatOf[c]
                        /\ ~HasKey(result, flowEdges[k].id)}}
       IN  /\ hookEdges'[c] = result
           /\ \A i \in 1..Len(result) :
                 /\ HasKey(flowEdges', result[i].id)
                 /\ LET r == Get(flowEdges', result[i].id)
                    IN  IF HasKey(flowEdges, r.id) /\ Get(flowEdges, r.id).chatId # chatOf[c]
                        THEN r = Get(flowEdges, r.id)
                        ELSE /\ ToUiEdge(r) = result[i]
                             /\ r.chatId = chatOf[c]
                             /\ r.createdAt = IF HasKey(flowEdges, r.id)
                                              THEN Get(flowEdges, r.id).createdAt
                                              ELSE now
           /\ Keys(flowEdges) \ Keys(flowEdges') = gone
           /\ Keys(flowEdges') \subseteq Keys(flowEdges) \cup Keys(result)
\* C21: updateNodes and updateEdges apply the changes to the cache, write the
\* result and delete the chat's records that are absent from it
C21_ApplyThenDiff == [][C21_UpdateNodesStep /\ C21_UpdateEdgesStep]_vars
\* a remove change took a cached node out of the store while a record of the
\* other chat and another node of the caller's chat stayed
C21_Witness ==
    /\ lastOp.op = "updateNodes"
    /\ lastOp.arg.type = "remove"
    /\ lastOp.deleted = {lastOp.node}
    /\ hookNodes[lastOp.client] # <<>>
    /\ \E i \in 1..Len(flowNodes) : flowNodes[i].chatId = chatOf[lastOp.client]
    /\ \E i \in 1..Len(flowEdges) : flowEdges[i].chatId # chatOf[lastOp.client]

\* an updateNodes call whose batch holds no remove change keeps every stored
\* node, with its type, position and data
C26_SelectStep ==
    (lastOp'.op = "updateNodes" /\ lastOp'.arg.type # "remove")
    => \A i \in 1..Len(flowNodes) :
           /\ HasKey(flowNodes', flowNodes[i].id)
           /\ ToUiNode(Get(flowNodes', flowNodes[i].id)) = ToUiNode(flowNodes[i])
\* C26: updateNodes without a remove change deletes no stored node and changes
\* no stored node's type, position or data, whatever the caller's cache holds
C26_NoRemoveKeepsStore == [][C26_SelectStep]_vars

\* the calls of the canvas that may write through
UiCalls == {"onNodesChange", "onEdgesChange", "onConnect", "onConnectEnd", "onCancel"}
\* C22 (step): a canvas call of a client whose storage has not loaded leaves
\* the store as it was
C22_GatedStep ==
    \A c \in Clients :
        (lastOp'.op \in UiCalls /\ lastOp'.client = c /\ ~isStorageLoaded[c])
        => /\ flowNodes' = flowNodes /\ flowEdges' = flowEdges
           /\ posTimer' = posTimer
EverStoredIds == FollowUpIds
\* every id the store ever holds as a node record is one of these
StoredIdsBound == Keys(flowNodes) \subseteq EverStoredIds
\* C23: the source and the target of every edge record are ids of node records
\* of the same chat that are in the store or were in it before
C23_EdgeIntegrity ==
    \A i \in 1..Len(flowEdges) :
        \A end \in {flowEdges[i].source, flowEdges[i].target} :
            \/ /\ HasKey(flowNodes, end)
               /\ Get(flowNodes, end).chatId = flowEdges[i].chatId
            \/ end \in EverStoredIds

\* C24: requestLock for a node validly locked by another user returns false
\* without calling the acquire function and appends the request at the tail of
\* the node's pending list; processLockQueue removes exactly the oldest pending
\* request and attempts the grant for it, so requests are served in the order
\* of their requestLock calls; on an empty list it changes nothing and does
\* not call the acquire function.
C24_RequestStep ==
    lastOp'.op = "requestLock" =>
        LET n == lastOp'.node
            currentLock == lastOp'.before[n]
        IN  (/\ currentLock # NoLock
             /\ now <= currentLock.expiresAt
             /\ currentLock.userId # lastOp'.client)
            => /\ lastOp'.ret = FALSE
               /\ acquireCalls' = 0
               /\ Len(lockRequests'[n]) = Len(lockRequests[n]) + 1
               /\ SubSeq(lockRequests'[n], 1, Len(lockRequests[n])) = lockRequests[n]
               /\ lockRequests'[n][Len(lockRequests'[n])].userId = lastOp'.client
               /\ lockRequests'[n][Len(lockRequests'[n])].timestamp = now
               /\ \A m \in LockNodeIds \ {n} : lockRequests'[m] = lockRequests[m]
C24_ProcessStep ==
    lastOp'.op = "processLockQueue" =>
        LET n == lastOp'.node
        IN  IF lockRequests[n] = <<>>
            THEN /\ acquireCalls' = 0
                 /\ UNCHANGED <<lockRequests, lockCallbacks, invoked>>
            ELSE /\ acquireCalls' = 1
                 /\ lockRequests'[n] = Tail(lockRequests[n])
                 /\ lastOp'.client = Head(lockRequests[n]).userId
                 /\ \A m \in LockNodeIds \ {n} : lockRequests'[m] = lockRequests[m]
C24_InCallOrder ==
    \A n \in LockNodeIds : \A i, j \in 1..Len(lockRequests[n]) :
        i < j => lockRequests[n][i].timestamp <= lockRequests[n][j].timestamp
C24_FifoQueue == [][C24_RequestStep /\ C24_ProcessStep /\ C24_InCallOrder']_vars
C24_Witness ==
    /\ lastOp.op = "processLockQueue"
    /\ lastOp.ret = TRUE
    /\ acquireCalls = 1
    /\ lockRequests[lastOp.node] # <<>>
    /\ Head(lockRequests[lastOp.node]).userId # lastOp.client
    /\ lastOp.result.position.x < Head(lockRequests[lastOp.node]).timestamp

\* C29: a request queued with a callback has that callback invoked exactly
\* once: with the grant result when processLockQueue dequeues it, with false
\* when clearNodeRequests or cleanupExpiredRequests removes it; no callback is
\* invoked twice, also when one user queues several requests for one node.
C29_DequeueStep ==
    (lastOp'.op = "processLockQueue" /\ lockRequests[lastOp'.node] # <<>>) =>
        LET cb == Head(lockRequests[lastOp'.node]).cb
        IN  cb # 0 => invoked'[cb] = <<lastOp'.ret>>
C29_ClearStep ==
    lastOp'.op = "clearNodeRequests" =>
        \A i \in 1..Len(lockRequests[lastOp'.node]) :
            LET cb == lockRequests[lastOp'.node][i].cb
            IN  cb # 0 => invoked'[cb] = <<FALSE>>
C29_AtMostOnce == \A k \in CallbackIds : Len(invoked[k]) <= 1
C29_CallbackOnce == [][C29_DequeueStep /\ C29_ClearStep /\ C29_AtMostOnce']_vars

\* C30: after saveFlowNodes every node of the batch has a row with its id that
\* carries that node's own positionX, positionY and data, whether or not the
\* row existed before; after saveFlowEdges every edge of the batch has a row
\* with its own source, target, type, animated and style.
C30_NodesStored ==
    lastOp.op = "saveFlowNodes" =>
        \A i \in 1..Len(lastOp.arg) :
            LET node == lastOp.arg[i]
            IN  /\ HasKey(dbFlowNodes, node.id)
                /\ Get(dbFlowNodes, node.id).positionX = node.positionX
                /\ Get(dbFlowNodes, node.id).positionY = node.positionY
                /\ Get(dbFlowNodes, node.id).data = node.data
C30_EdgesStored ==
    lastOp.op = "saveFlowEdges" =>
        \A i \in 1..Len(lastOp.arg) :
            LET edge == lastOp.arg[i]
                row == Get(dbFlowEdges, edge.id)
            IN  /\ HasKey(dbFlowEdges, edge.id)
                /\ row.source = edge.source
                /\ row.target = edge.target
                /\ row.type = (IF edge.type = "" THEN "smoothstep" ELSE edge.type)
                /\ row.animated = edge.animated
                /\ row.style = edge.style
C30_PerRowUpsert == C30_NodesStored /\ C30_EdgesStored

\* C25: what a hook bound to chat c exposes holds only store records whose
\* chatId is c, and no operation of that hook modifies or deletes a node or
\* edge record whose chatId differs from c.
C25_ExposesOwnChat ==
    /\ lastOp'.op = "syncNodes" =>
          \A i \in 1..Len(hookNodes'[lastOp'.client]) :
              LET id == hookNodes'[lastOp'.client][i].id
              IN  HasKey(flowNodes, id) /\ Get(flowNodes, id).chatId = chatOf[lastOp'.client]
    /\ lastOp'.op = "syncEdges" =>
          \A i \in 1..Len(hookEdges'[lastOp'.client]) :
              LET id == hookEdges'[lastOp'.client][i].id
              IN  HasKey(flowEdges, id) /\ Get(flowEdges, id).chatId = chatOf[lastOp'.client]
C25_LeavesOtherChats ==
    lastOp'.client \in Clients =>
        /\ \A i \in 1..Len(flowNodes) :
              flowNodes[i].chatId # chatOf[lastOp'.client]
              => HasKey(flowNodes', flowNodes[i].id)
                 /\ Get(flowNodes', flowNodes[i].id) = flowNodes[i]
        /\ \A i \in 1..Len(flowEdges) :
              flowEdges[i].chatId # chatOf[lastOp'.client]
              => HasKey(flowEdges', flowEdges[i].id)
                 /\ Get(flowEdges', flowEdges[i].id) = flowEdges[i]
C25_PartitionIsolation == [][C25_ExposesOwnChat /\ C25_LeavesOtherChats]_vars

\* C27: once the lock on a node has expired (expiresAt earlier than now), the
\* node has a valid lock again only through an acquireLock on that node that
\* succeeded; renewLock, releaseLock and the sweep never turn an expired lock
\* back into a valid one.
StoredLockExpired(n) == nodeLocks[n] # NoLock /\ nodeLocks[n].expiresAt < now
C27_RevivedOnlyByAcquire ==
    \A n \in LockNodeIds :
        (/\ StoredLockExpired(n)
         /\ nodeLocks'[n] # NoLock
         /\ ~isLockExpired(nodeLocks'[n], now'))
        => /\ lastOp'.op = "acquireLock"
           /\ lastOp'.node = n
           /\ lastOp'.ret = TRUE
C27_NeverRevived == [][C27_RevivedOnlyByAcquire]_vars

\* C28: a merge that is not skipped neither drops nor duplicates a node: the
\* merged list holds every local id in its original order, then the snapshot's
\* ids that had no local counterpart, each id once (given no id occurs twice
\* in the local list), so the merged ids are the union of local and remote ids.
C28_MergeStep ==
    \A c \in Clients :
        ReconcileStep(c) =>
            LET local == nodesLocal[c]
                merged == nodesLocal'[c]
                remote == Remote(c)'
                added == SelectSeq(remote, LAMBDA n : ~HasKey(local, n.id))
            IN  /\ Ids(merged) = Ids(local) \o Ids(added)
                /\ Keys(merged) = Keys(local) \cup Keys(remote)
                /\ (\A id \in Keys(local) : Occurrences(local, id) = 1)
                   => \A id \in Keys(merged) : Occurrences(merged, id) = 1
C28_NoDropNoDuplicate == [][C28_MergeStep]_vars
\* a merge has just run on c2 whose list keeps a node the snapshot does not
\* have, next to a node that the snapshot has
C28_Witness ==
    /\ Reconciled("c2")
    /\ isReceiving["c2"]
    /\ Keys(nodesLocal["c2"]) \ Keys(Remote("c2")) # {}
    /\ Keys(Remote("c2")) # {}
    /\ Keys(Remote("c2")) \subseteq Keys(nodesLocal["c2"])

====
